---------------------------- MODULE Spec2Model ----------------------------
(***************************************************************************)
(* A model of the Cypress results grader (src/autograder/grader.py and     *)
(* src/autograder/util.py): locating, decrypting, parsing and scoring a    *)
(* results report, and the feedback record that a grading run emits.       *)
(*                                                                         *)
(* JSON objects are records whose DOMAIN is the set of keys present, JSON  *)
(* lists are sequences.  File names, spec names and regex patterns are     *)
(* sequences of one-character strings, so that suffix tests, lower-casing  *)
(* and substring search are computed.  State strings are TLA+ strings and  *)
(* str.lower() is the table Lower.                                         *)
(***************************************************************************)
EXTENDS Integers, Sequences, FiniteSets, TLC

VARIABLES
    pc,                 \* position of the modelled call or run
    part_id,            \* the rubric identifier handed to main (NONE when None)
    config,             \* the value of config["cypressSpecPattern"], tagged
    spec_pattern,       \* the pattern main hands to summarize_results, tagged
    env,                \* os.environ: an object over the variables that are set
    secret_file,        \* the file CYPRESS_RESULTS_SECRET_FILE names, tagged
    fs,                 \* the files under the submission roots
    cached_secret,      \* _CACHED_SECRET (NONE when None)
    secret_initialised, \* _SECRET_INITIALISED
    ret,                \* the outcome of the last get_results_secret call
    results_path,       \* the path locate_results_file returned
    raw_bytes,          \* load_results: raw_bytes, tagged by what the bytes are
    attempted_decrypt,  \* load_results: attempted_decrypt
    decrypts,           \* decrypt_results_file calls made by the load_results call
    data,               \* the parsed results document
    summary,            \* the Summary returned by summarize_results
    details,            \* the detail list handed to build_feedback_lines
    lines,              \* the feedback lines built by build_feedback_lines
    feedback,           \* the sequence of records send_feedback has emitted
    exc                 \* the exception in flight or handled, tagged

runVars == <<part_id, config, spec_pattern>>
worldVars == <<env, secret_file, fs>>
secretVars == <<cached_secret, secret_initialised, ret>>
loadVars == <<results_path, raw_bytes, attempted_decrypt, decrypts>>
gradeVars == <<data, summary, details, lines>>
outVars == <<feedback, exc>>

vars == <<pc, runVars, worldVars, secretVars, loadVars, gradeVars, outVars>>

-----------------------------------------------------------------------------
(* Bounds of the model *)

MaxTests == 3           \* longest flat test list of a generated document
MaxRuns == 2            \* most runs of a generated document

-----------------------------------------------------------------------------
(* Program constants *)

MAX_DETAIL_ENTRIES == 20

PASS_STATES == {"passed", "pass", "success"}
FAIL_STATES == {"failed", "fail", "broken", "errored", "error"}
PENDING_STATES == {"pending", "skipped", "skip", "canceled", "cancelled"}

-----------------------------------------------------------------------------
(* Python values *)

\* None, where the other values of the field are strings
NONE == "<None>"

\* the empty JSON object {}
EmptyObj == [k \in {} |-> 0]

Has(d, k) == k \in DOMAIN d

\* no path: what a search that finds nothing gives
NoPathFound == [root |-> "none", name |-> <<>>]

Range(s) == {s[i] : i \in 1..Len(s)}

Max(a, b) == IF a >= b THEN a ELSE b
Min(a, b) == IF a <= b THEN a ELSE b

\* str.lower() on the state and flag strings the model uses
Lower(s) ==
    CASE s = "PASSED" -> "passed"
      [] s = "Passed" -> "passed"
      [] s = "Failed" -> "failed"
      [] s = "Broken" -> "broken"
      [] s = "Unknown" -> "unknown"
      [] s = "SKIPPED" -> "skipped"
      [] s = "TRUE" -> "true"
      [] OTHER -> s

\* str.lower() on one character of a name or pattern
LowerChar(c) ==
    CASE c = "A" -> "a"
      [] c = "B" -> "b"
      [] OTHER -> c

LowerSeq(s) == [i \in 1..Len(s) |-> LowerChar(s[i])]

\* str.strip() on the error and secret strings the model uses
Strip(s) ==
    CASE s = " boom " -> "boom"
      [] s = "  " -> ""
      [] s = " envkey " -> "envkey"
      [] s = " filekey " -> "filekey"
      [] OTHER -> s

-----------------------------------------------------------------------------
(* Exceptions: a CypressResultsError carries the message main sends as      *)
(* feedback; any other exception is tagged Exception.                      *)

CypressResultsError(msg) == [kind |-> "CypressResultsError", msg |-> msg]
OtherException(what) == [kind |-> "Exception", msg |-> what]

MsgNoSecret == "Encrypted Cypress results detected but no decryption secret was provided."
MsgSecretFileMissing == "Cypress secret file does not exist or is not readable."
MsgSecretFileUnreadable == "Unable to read Cypress secret file"
MsgOpenSSLMissing == "OpenSSL binary not found."
MsgDecryptFailed == "Please note that the Cypress results you submitted do not correspond to the correct test suite."
MsgReadFailed == "Unable to read results file"
MsgNotUtf8 == "Results file is not valid UTF-8 encoded text"
MsgNotJson == "Results file is not valid JSON"
MsgNotObject == "Cypress results JSON must contain an object at the top level."
MsgNotCypress == "Provided JSON file does not look like Cypress test results."
MsgExplicitNotFound == "Cypress results JSON not found at CYPRESS_RESULTS_PATH."
MsgNotFound == "Could not find a Cypress results file."
MsgNoTests == "No tests were found in the provided Cypress results JSON file."

-----------------------------------------------------------------------------
(* The decryption secret: grader.py lines 30-33 and 87-133.  The secret     *)
(* file is tagged missing (is_file() is false), unreadable (read_text      *)
(* raises OSError), badutf8 (read_text raises UnicodeDecodeError) or text. *)

DEFAULT_SECRET_VALUE == "your-long-passphrase"

\* os.environ.get(k) is truthy
EnvTruthy(e, k) == Has(e, k) /\ e[k] # ""

\* lines 96-133: the first resolution; the outcome, and the cache it leaves
ResolveSecret(e, sfile, pid, required) ==
    LET raise(x) == [outcome |-> "raise", exc |-> x, value |-> NONE, cached |-> NONE]
        finish(secret_value) ==
            LET v == IF secret_value = "" THEN DEFAULT_SECRET_VALUE ELSE secret_value
            IN  [outcome |-> "return", exc |-> [kind |-> "none"], value |-> v, cached |-> v]
    IN  IF EnvTruthy(e, "CYPRESS_RESULTS_SECRET_FILE")
        THEN CASE sfile.kind = "missing" ->
                      raise(CypressResultsError(MsgSecretFileMissing))
               [] sfile.kind = "unreadable" ->
                      raise(CypressResultsError(MsgSecretFileUnreadable))
               [] sfile.kind = "badutf8" ->
                      raise(OtherException("UnicodeDecodeError"))
               [] sfile.kind = "text" -> finish(Strip(sfile.val))
        ELSE LET from_env == IF Has(e, "CYPRESS_RESULTS_SECRET")
                             THEN Strip(e.CYPRESS_RESULTS_SECRET) ELSE ""
             IN  IF from_env = "" /\ pid \notin {NONE, ""}
                 THEN finish(pid)
                 ELSE finish(from_env)

\* get_results_secret without the test of _SECRET_INITIALISED (lines 89-94)
get_results_secret_uncached(cached, initialised, e, sfile, pid, required) ==
    ResolveSecret(e, sfile, pid, required) @@ [initialised |-> TRUE]

\* get_results_secret: the outcome and the globals it leaves
get_results_secret(cached, initialised, e, sfile, pid, required) ==
    IF initialised
    THEN IF required /\ cached \in {NONE, ""}
         THEN [outcome |-> "raise", exc |-> CypressResultsError(MsgNoSecret),
               value |-> NONE, cached |-> cached, initialised |-> TRUE]
         ELSE [outcome |-> "return", exc |-> [kind |-> "none"],
               value |-> cached, cached |-> cached, initialised |-> TRUE]
    ELSE ResolveSecret(e, sfile, pid, required) @@ [initialised |-> TRUE]

-----------------------------------------------------------------------------
(* Files and decryption: grader.py lines 40-50 and 136-229.  A file name is *)
(* the sequence of its stem and dotted suffixes, so <<"a", ".json", ".enc">>*)
(* is a.json.enc.  The bytes of a file are tagged by what they are:        *)
(*   json       UTF-8 text of the JSON object doc                          *)
(*   nonobject  UTF-8 text of a JSON value that is no object               *)
(*   badjson    UTF-8 text that is no JSON                                 *)
(*   badutf8    bytes that are no UTF-8 text and no cipher output          *)
(*   cipher     the cipher's output for the bytes plain under key         *)
(*   unreadable the file cannot be read (OSError)                          *)

ENCRYPTED_SUFFIXES == {".enc", ".encrypted"}

\* str.lower() on one segment of a file name
LowerSeg(x) ==
    CASE x = ".ENC" -> ".enc"
      [] x = ".JSON" -> ".json"
      [] OTHER -> x

\* _parse_bool: "True", "False" or "None"
_parse_bool(e, k) ==
    IF ~Has(e, k) THEN "None"
    ELSE LET normalized == Lower(Strip(e[k]))
         IN  IF normalized = "" THEN "None"
             ELSE IF normalized \in {"1", "true", "yes", "on"} THEN "True"
             ELSE IF normalized \in {"0", "false", "no", "off"} THEN "False"
             ELSE "None"

\* should_treat_as_encrypted(path)
should_treat_as_encrypted(e, path) ==
    LET flag == _parse_bool(e, "CYPRESS_RESULTS_ENCRYPTED")
    IN  IF flag # "None" THEN flag = "True"
        ELSE /\ Len(path.name) > 0
             /\ LowerSeg(path.name[Len(path.name)]) \in ENCRYPTED_SUFFIXES

FilesAt(world, path) ==
    {f \in world.files : f.root = path.root /\ f.name = path.name}

\* path.is_file()
IsFile(world, path) == FilesAt(world, path) # {}

\* the bytes of the file at path, which exists
BytesAt(world, path) == (CHOOSE f \in FilesAt(world, path) : TRUE).bytes

\* the cipher tool in decrypt mode exits with status 0 on these bytes
CipherAccepts(bytes, secret) == bytes.kind = "cipher" /\ bytes.key = secret

\* lines 150-203, s being what get_results_secret(part_id, required=True) did
DecryptWithSecret(s, world, path) ==
    LET raise(x) == [outcome |-> "raise", exc |-> x, bytes |-> [kind |-> "none"],
                     cached |-> s.cached, initialised |-> s.initialised]
    IN  IF s.outcome = "raise" THEN raise(s.exc)
        ELSE IF ~world.openssl THEN raise(CypressResultsError(MsgOpenSSLMissing))
        ELSE IF ~CipherAccepts(BytesAt(world, path), s.value)
        THEN raise(CypressResultsError(MsgDecryptFailed))
        ELSE [outcome |-> "return", exc |-> [kind |-> "none"],
              bytes |-> BytesAt(world, path).plain,
              cached |-> s.cached, initialised |-> s.initialised]

\* decrypt_results_file(path, part_id): the outcome, the bytes and the secret
\* globals it leaves
decrypt_results_file(cached, initialised, e, sfile, world, path, pid) ==
    DecryptWithSecret(get_results_secret(cached, initialised, e, sfile, pid, TRUE),
                      world, path)

\* read_results_bytes without the test of line 207: the bytes as they are
read_results_bytes_as_plain(cached, initialised, e, sfile, world, path, pid) ==
    IF BytesAt(world, path).kind = "unreadable"
    THEN [outcome |-> "raise", exc |-> CypressResultsError(MsgReadFailed),
          bytes |-> [kind |-> "none"], cached |-> cached, initialised |-> initialised]
    ELSE [outcome |-> "return", exc |-> [kind |-> "none"],
          bytes |-> BytesAt(world, path), cached |-> cached, initialised |-> initialised]

\* read_results_bytes(path, part_id)
read_results_bytes(cached, initialised, e, sfile, world, path, pid) ==
    IF should_treat_as_encrypted(e, path)
    THEN decrypt_results_file(cached, initialised, e, sfile, world, path, pid)
    ELSE IF BytesAt(world, path).kind = "unreadable"
    THEN [outcome |-> "raise", exc |-> CypressResultsError(MsgReadFailed),
          bytes |-> [kind |-> "none"], cached |-> cached, initialised |-> initialised]
    ELSE [outcome |-> "return", exc |-> [kind |-> "none"],
          bytes |-> BytesAt(world, path), cached |-> cached, initialised |-> initialised]

\* NoRetry without the test of lines 223-224: an artifact treated as encrypted
\* is retried too
NoRetryIgnoringSuffix(e, path, attempted) == attempted

\* _maybe_decrypt_after_failure returns None without decrypting
NoRetry(e, path, attempted) == attempted \/ should_treat_as_encrypted(e, path)

\* raw_bytes.decode("utf-8") succeeds
DecodesAsUtf8(bytes) == bytes.kind \in {"json", "nonobject", "badjson"}

\* json.loads(text) succeeds
ParsesAsJson(bytes) == bytes.kind \in {"json", "nonobject"}

\* is_probably_cypress_results accepting every stats object (lines 681-683
\* without the test of the counter names)
is_probably_cypress_results_any_stats(doc) ==
    \/ Has(doc, "runs")
    \/ Has(doc, "stats")
    \/ Has(doc, "tests")
    \/ Has(doc, "results")

\* is_probably_cypress_results on a parsed object
is_probably_cypress_results(doc) ==
    \/ Has(doc, "runs")
    \/ /\ Has(doc, "stats")
       /\ DOMAIN doc.stats \cap {"tests", "passes", "failures", "testsRegistered"} # {}
    \/ Has(doc, "tests")
    \/ Has(doc, "results")

-----------------------------------------------------------------------------
(* locate_results_file: grader.py lines 53-84, 299-354 and 695-701.  The    *)
(* files live in the roots "learn" and "submission", the file of           *)
(* CYPRESS_RESULTS_PATH in the root "explicit".  env holds the first       *)
(* command-line argument under the key argv1.                              *)

DEFAULT_RESULTS_FILENAME == <<"cypress-results", ".json">>

\* the names root.glob() can list, in the order sorted() gives them
NameOrder ==
    << <<"backup", ".enc">>, <<"mochawesome", ".json">>,
       <<"report", ".enc">>, <<"report", ".json">> >>

\* add(name) of _expand_candidate_filenames
AddName(names, n) == IF n \in Range(names) THEN names ELSE Append(names, n)

_expand_candidate_filenames(base_name) ==
    LET last == IF Len(base_name) > 0 THEN LowerSeg(base_name[Len(base_name)]) ELSE ""
        n1 == AddName(<<>>, base_name)
        n2 == IF last # ".enc" THEN AddName(n1, Append(base_name, ".enc")) ELSE n1
        n3 == IF last = ".json"
              THEN AddName(n2, SubSeq(base_name, 1, Len(base_name) - 1)
                                   \o <<".json", ".enc">>)
              ELSE n2
        n4 == AddName(n3, DEFAULT_RESULTS_FILENAME)
        n5 == AddName(n4, Append(DEFAULT_RESULTS_FILENAME, ".enc"))
    IN  AddName(n5, <<"cypress-results", ".enc">>)

_candidate_roots(world) ==
    IF world.learn THEN <<"learn", "submission">> ELSE <<"submission">>

_secret_configured(cached, initialised, e) ==
    IF initialised THEN cached \notin {NONE, ""}
    ELSE IF EnvTruthy(e, "CYPRESS_RESULTS_SECRET")
            \/ EnvTruthy(e, "CYPRESS_RESULTS_SECRET_FILE") THEN TRUE
    ELSE IF EnvTruthy(e, "argv1") THEN TRUE
    ELSE DEFAULT_SECRET_VALUE # ""

\* NamedSearch with the loops of lines 318-319 exchanged: names first, from
\* (j, i) on
RECURSIVE NamedSearchNamesFirst(_, _, _, _, _)
NamedSearchNamesFirst(world, roots, names, j, i) ==
    IF i > Len(names) THEN NoPathFound
    ELSE IF j > Len(roots) THEN NamedSearchNamesFirst(world, roots, names, 1, i + 1)
    ELSE IF IsFile(world, [root |-> roots[j], name |-> names[i]])
    THEN [root |-> roots[j], name |-> names[i]]
    ELSE NamedSearchNamesFirst(world, roots, names, j + 1, i)

\* lines 318-322: the first existing candidate, roots first, from (j, i) on
RECURSIVE NamedSearch(_, _, _, _, _)
NamedSearch(world, roots, names, j, i) ==
    IF j > Len(roots) THEN NoPathFound
    ELSE IF i > Len(names) THEN NamedSearch(world, roots, names, j + 1, 1)
    ELSE IF IsFile(world, [root |-> roots[j], name |-> names[i]])
    THEN [root |-> roots[j], name |-> names[i]]
    ELSE NamedSearch(world, roots, names, j, i + 1)

\* root.glob("*" + suffix) lists the name
Globbed(world, root, n, suffix) ==
    /\ IsFile(world, [root |-> root, name |-> n])
    /\ Len(n) > 1 /\ n[Len(n)] = suffix

\* json.load and the sniff of lines 327-329 accept the bytes
SniffsAsResults(bytes) == bytes.kind = "json" /\ is_probably_cypress_results(bytes.doc)

\* lines 325-335: the *.json scan of one root, from name i on
RECURSIVE ScanJson(_, _, _)
ScanJson(world, root, i) ==
    IF i > Len(NameOrder) THEN NoPathFound
    ELSE IF /\ Globbed(world, root, NameOrder[i], ".json")
            /\ SniffsAsResults(BytesAt(world, [root |-> root, name |-> NameOrder[i]]))
    THEN [root |-> root, name |-> NameOrder[i]]
    ELSE ScanJson(world, root, i + 1)

\* lines 339-349: the *.enc scan of one root, from name i on; every decrypt
\* goes through get_results_secret and leaves the secret globals behind
RECURSIVE ScanEnc(_, _, _, _, _, _, _, _)
RECURSIVE ScanEncCandidate(_, _, _, _, _, _, _)

ScanEnc(world, root, i, cached, initialised, e, sfile, pid) ==
    IF i > Len(NameOrder)
    THEN [path |-> NoPathFound, cached |-> cached, initialised |-> initialised]
    ELSE IF ~Globbed(world, root, NameOrder[i], ".enc")
    THEN ScanEnc(world, root, i + 1, cached, initialised, e, sfile, pid)
    ELSE ScanEncCandidate(
             world, root, i, e, sfile, pid,
             decrypt_results_file(cached, initialised, e, sfile, world,
                                  [root |-> root, name |-> NameOrder[i]], pid))

\* lines 340-349 for candidate i, d being what decrypt_results_file did
ScanEncCandidate(world, root, i, e, sfile, pid, d) ==
    IF d.outcome = "return" /\ SniffsAsResults(d.bytes)
    THEN [path |-> [root |-> root, name |-> NameOrder[i]],
          cached |-> d.cached, initialised |-> d.initialised]
    ELSE ScanEnc(world, root, i + 1, d.cached, d.initialised, e, sfile, pid)

\* lines 324-349: the scans, root by root: *.json, then *.enc, of each root
RECURSIVE ScanRoots(_, _, _, _, _, _, _, _)
RECURSIVE AfterScanEnc(_, _, _, _, _, _, _)

ScanRoots(world, roots, j, cached, initialised, e, sfile, pid) ==
    IF j > Len(roots)
    THEN [path |-> NoPathFound, cached |-> cached, initialised |-> initialised]
    ELSE IF ScanJson(world, roots[j], 1) # NoPathFound
    THEN [path |-> ScanJson(world, roots[j], 1),
          cached |-> cached, initialised |-> initialised]
    ELSE IF ~(_secret_configured(cached, initialised, e) \/ pid \notin {NONE, ""})
    THEN ScanRoots(world, roots, j + 1, cached, initialised, e, sfile, pid)
    ELSE AfterScanEnc(world, roots, j, e, sfile, pid,
                      ScanEnc(world, roots[j], 1, cached, initialised, e, sfile, pid))

\* the end of the loop body for root j, byEnc being what its *.enc scan did
AfterScanEnc(world, roots, j, e, sfile, pid, byEnc) ==
    IF byEnc.path # NoPathFound THEN byEnc
    ELSE ScanRoots(world, roots, j + 1, byEnc.cached, byEnc.initialised,
                   e, sfile, pid)

\* lines 351-354: the scanned path, or the error when nothing was found
ScanOutcome(scanned) ==
    IF scanned.path # NoPathFound
    THEN [outcome |-> "return", exc |-> [kind |-> "none"], path |-> scanned.path,
          cached |-> scanned.cached, initialised |-> scanned.initialised]
    ELSE [outcome |-> "raise", exc |-> CypressResultsError(MsgNotFound),
          path |-> NoPathFound,
          cached |-> scanned.cached, initialised |-> scanned.initialised]

\* locate_results_file(part_id): the outcome, the path and the secret globals
locate_results_file(cached, initialised, e, sfile, world, pid) ==
    LET result(path) ==
            [outcome |-> "return", exc |-> [kind |-> "none"], path |-> path,
             cached |-> cached, initialised |-> initialised]
    IN  IF Has(e, "CYPRESS_RESULTS_PATH") /\ e.CYPRESS_RESULTS_PATH # <<>>
        THEN IF IsFile(world, [root |-> "explicit", name |-> e.CYPRESS_RESULTS_PATH])
             THEN result([root |-> "explicit", name |-> e.CYPRESS_RESULTS_PATH])
             ELSE [outcome |-> "raise",
                   exc |-> CypressResultsError(MsgExplicitNotFound),
                   path |-> NoPathFound, cached |-> cached,
                   initialised |-> initialised]
        ELSE LET filename == IF Has(e, "CYPRESS_RESULTS_FILENAME")
                             THEN e.CYPRESS_RESULTS_FILENAME
                             ELSE DEFAULT_RESULTS_FILENAME
                 roots == _candidate_roots(world)
                 named == NamedSearch(world, roots,
                                      _expand_candidate_filenames(filename), 1, 1)
             IN  IF named # NoPathFound THEN result(named)
                 ELSE ScanOutcome(ScanRoots(world, roots, 1, cached, initialised,
                                            e, sfile, pid))

-----------------------------------------------------------------------------
(* Per-test normalisation: grader.py, extract_state_and_error and helpers.  *)
(* A test is a record over the keys title, name, state, status, pass,      *)
(* passed, fail, failed, pending, displayError, err, error, message and    *)
(* attempts; state, status, displayError, error and message hold strings,  *)
(* the flags hold booleans, err holds an object and attempts a list of     *)
(* objects over the keys state (a string), error (an object) and message   *)
(* (a string).  An error value in flight is tagged none / str / obj.       *)

NoErr == [kind |-> "none"]
StrErr(s) == [kind |-> "str", val |-> s]
ObjErr(o) == [kind |-> "obj", val |-> o]

\* Python truthiness of an error value
ErrTruthy(e) ==
    CASE e.kind = "none" -> FALSE
      [] e.kind = "str" -> e.val # ""
      [] e.kind = "obj" -> DOMAIN e.val # {}

\* bool(test.get(k)) for a boolean flag
Flag(test, k) == Has(test, k) /\ test[k] = TRUE

\* test.get(k) is truthy, for a string field
StrTruthy(d, k) == Has(d, k) /\ d[k] # ""

\* json.dumps of an error object with none of the known keys
JsonDumps(o) == "<json>"

\* _normalise_error_message; None and "" are both returned as falsy values
\* and the callers only test truthiness, "" stays "" and None is NONE
_normalise_error_message(raw) ==
    CASE raw.kind = "none" -> NONE
      [] raw.kind = "str" -> Strip(raw.val)
      [] raw.kind = "obj" ->
            IF DOMAIN raw.val = {} THEN NONE
            ELSE IF StrTruthy(raw.val, "message") THEN Strip(raw.val.message)
            ELSE IF StrTruthy(raw.val, "displayMessage") THEN Strip(raw.val.displayMessage)
            ELSE IF StrTruthy(raw.val, "stack") THEN Strip(raw.val.stack)
            ELSE IF StrTruthy(raw.val, "stacktrace") THEN Strip(raw.val.stacktrace)
            ELSE IF StrTruthy(raw.val, "name") THEN Strip(raw.val.name)
            ELSE JsonDumps(raw.val)

\* lines 570-582: the base state, from state / status or the boolean flags
BaseState(test) ==
    IF StrTruthy(test, "state") THEN Lower(test.state)
    ELSE IF StrTruthy(test, "status") THEN Lower(test.status)
    ELSE IF Flag(test, "pass") \/ Flag(test, "passed") THEN "passed"
    ELSE IF Flag(test, "fail") \/ Flag(test, "failed") THEN "failed"
    ELSE IF Flag(test, "pending") THEN "pending"
    ELSE "unknown"

\* lines 584-589: displayError or err or error or message
BaseError(test) ==
    IF StrTruthy(test, "displayError") THEN StrErr(test.displayError)
    ELSE IF Has(test, "err") /\ DOMAIN test.err # {} THEN ObjErr(test.err)
    ELSE IF StrTruthy(test, "error") THEN StrErr(test.error)
    ELSE IF Has(test, "message") THEN StrErr(test.message)
    ELSE NoErr

\* attempt.get("error") or attempt.get("message")
AttemptError(attempt) ==
    IF Has(attempt, "error") /\ DOMAIN attempt.error # {} THEN ObjErr(attempt.error)
    ELSE IF Has(attempt, "message") THEN StrErr(attempt.message)
    ELSE NoErr

\* AttemptsWalk without the break of lines 602-603: every attempt is visited
RECURSIVE AttemptsWalkNoBreak(_, _, _, _)
AttemptsWalkNoBreak(attempts, i, state, error) ==
    IF i = 0 THEN [state |-> state, error |-> error]
    ELSE LET attempt == attempts[i]
             state2 == IF Has(attempt, "state") THEN Lower(attempt.state) ELSE state
             error2 == IF ErrTruthy(AttemptError(attempt))
                       THEN AttemptError(attempt) ELSE error
         IN  AttemptsWalkNoBreak(attempts, i - 1, state2, error2)

\* lines 593-603: the walk over reversed(attempts), from index i down to 1,
\* carrying the state and error found so far
RECURSIVE AttemptsWalk(_, _, _, _)
AttemptsWalk(attempts, i, state, error) ==
    IF i = 0 THEN [state |-> state, error |-> error]
    ELSE LET attempt == attempts[i]
             state2 == IF Has(attempt, "state") THEN Lower(attempt.state) ELSE state
             error2 == IF ErrTruthy(AttemptError(attempt))
                       THEN AttemptError(attempt) ELSE error
         IN  IF StrTruthy(attempt, "state")
             THEN [state |-> state2, error |-> error2]
             ELSE AttemptsWalk(attempts, i - 1, state2, error2)

\* lines 591-603: the attempts override
AttemptsOverride(test) ==
    IF Has(test, "attempts") /\ Len(test.attempts) > 0
    THEN AttemptsWalk(test.attempts, Len(test.attempts), BaseState(test), BaseError(test))
    ELSE [state |-> BaseState(test), error |-> BaseError(test)]

\* lines 605-612: state "unknown" with an err object
ErrBlockOverride(test, se) ==
    IF se.state = "unknown" /\ Has(test, "err")
    THEN IF DOMAIN test.err # {}
         THEN [state |-> "failed",
               error |-> IF ErrTruthy(se.error) THEN se.error ELSE ObjErr(test.err)]
         ELSE [state |-> "passed", error |-> se.error]
    ELSE se

extract_state_and_error(test) ==
    LET se == ErrBlockOverride(test, AttemptsOverride(test))
    IN  [state |-> se.state, error |-> _normalise_error_message(se.error)]

\* format_test_title, for string-valued title / name / id
format_test_title(test) ==
    IF StrTruthy(test, "title") THEN test.title
    ELSE IF StrTruthy(test, "name") THEN test.name
    ELSE IF StrTruthy(test, "id") THEN test.id
    ELSE "Untitled test"

-----------------------------------------------------------------------------
(* The structural walk: grader.py, iter_all_tests and iter_suite_tests.     *)
(* A document is an object over the keys runs, tests, results and stats; a *)
(* run is an object over spec, tests, suites and stats; a suites value is  *)
(* a list of suite objects over tests and suites.  A pattern is tagged:    *)
(* none (None), str (a string) or dict (the whole mapping of the config).  *)

NoPattern == [kind |-> "none"]
StrPattern(p) == [kind |-> "str", val |-> p]
DictPattern(m) == [kind |-> "dict", val |-> m]

\* Python truthiness of a pattern value
PatternTruthy(p) ==
    CASE p.kind = "none" -> FALSE
      [] p.kind = "str" -> p.val # <<>>
      [] p.kind = "dict" -> DOMAIN p.val # {}

IsSubstr(p, s) ==
    \E i \in 0..(Len(s) - Len(p)) : SubSeq(s, i + 1, i + Len(p)) = p

\* re.compile accepts the pattern: the patterns of the model are literal
\* characters, and "(" alone is an unterminated group
ValidRegex(p) == "(" \notin Range(p)

\* re.search(pattern, spec_name, re.IGNORECASE) raises: a dict is no pattern
\* (TypeError), an invalid expression does not compile (re.error)
SearchRaises(pattern) ==
    \/ pattern.kind = "dict"
    \/ pattern.kind = "str" /\ ~ValidRegex(pattern.val)

\* re.search(pattern, spec_name, re.IGNORECASE) finds a match
Search(pattern, spec_name) == IsSubstr(LowerSeq(pattern.val), LowerSeq(spec_name))

\* lines 514-516: spec.get("relative") or spec.get("name") or ""
SpecName(run) ==
    LET spec == IF Has(run, "spec") THEN run.spec ELSE EmptyObj
    IN  IF Has(spec, "relative") /\ spec.relative # <<>> THEN spec.relative
        ELSE IF Has(spec, "name") /\ spec.name # <<>> THEN spec.name
        ELSE <<>>

\* lines 513-519: the run is skipped by the filter
RunSkipped(run, pattern) ==
    PatternTruthy(pattern) /\ ~Search(pattern, SpecName(run))

RECURSIVE iter_suite_list(_, _)
RECURSIVE iter_suite_tests(_)

\* iter_suite_tests on a suite object: its tests, then its sub-suites
iter_suite_tests(node) ==
    (IF Has(node, "tests") THEN node.tests ELSE <<>>)
    \o (IF Has(node, "suites") /\ Len(node.suites) > 0
        THEN iter_suite_list(node.suites, 1) ELSE <<>>)

\* iter_suite_tests on a list: every item from index i on
iter_suite_list(list, i) ==
    IF i > Len(list) THEN <<>>
    ELSE iter_suite_tests(list[i]) \o iter_suite_list(list, i + 1)

\* lines 521-528: the tests one run yields
RunTests(run) ==
    (IF Has(run, "tests") THEN run.tests ELSE <<>>)
    \o (IF Has(run, "suites") /\ Len(run.suites) > 0
        THEN iter_suite_list(run.suites, 1) ELSE <<>>)

\* lines 512-528: the runs from index i on
RECURSIVE RunsTests(_, _, _)
RunsTests(runs, i, pattern) ==
    IF i > Len(runs) THEN <<>>
    ELSE (IF RunSkipped(runs[i], pattern) THEN <<>> ELSE RunTests(runs[i]))
         \o RunsTests(runs, i + 1, pattern)

\* lines 536-541: the results from index i on
RECURSIVE ResultsTests(_, _)
ResultsTests(results, i) ==
    IF i > Len(results) THEN <<>>
    ELSE (IF Has(results[i], "suites") /\ Len(results[i].suites) > 0
          THEN iter_suite_list(results[i].suites, 1) ELSE <<>>)
         \o ResultsTests(results, i + 1)

\* the walk raises: re.search is called for the first run when a pattern is set
iter_all_tests_raises(doc, pattern) ==
    /\ Has(doc, "runs") /\ Len(doc.runs) > 0
    /\ PatternTruthy(pattern)
    /\ SearchRaises(pattern)

\* iter_all_tests with the flat tests walked before the runs
iter_all_tests_flat_first(doc, pattern) ==
    (IF Has(doc, "tests") THEN doc.tests ELSE <<>>)
    \o (IF Has(doc, "runs") THEN RunsTests(doc.runs, 1, pattern) ELSE <<>>)
    \o (IF Has(doc, "results") THEN ResultsTests(doc.results, 1) ELSE <<>>)

\* the sequence of tests iter_all_tests yields
iter_all_tests(doc, pattern) ==
    (IF Has(doc, "runs") THEN RunsTests(doc.runs, 1, pattern) ELSE <<>>)
    \o (IF Has(doc, "tests") THEN doc.tests ELSE <<>>)
    \o (IF Has(doc, "results") THEN ResultsTests(doc.results, 1) ELSE <<>>)

-----------------------------------------------------------------------------
(* The stats-block fallback: grader.py, iter_stats_blocks, aggregate_stats  *)
(* A stats block is an object whose counters are integers.                 *)

\* a.get(k1) or a.get(k2) or ... a.get(kn, 0): the first non-zero counter
RECURSIVE FirstCounter(_, _, _)
FirstCounter(stats, keys, i) ==
    IF i > Len(keys) THEN 0
    ELSE IF Has(stats, keys[i]) /\ stats[keys[i]] # 0 THEN stats[keys[i]]
    ELSE FirstCounter(stats, keys, i + 1)

\* lines 664-669: the stats blocks of the runs from index i on
RECURSIVE RunStatsBlocks(_, _)
RunStatsBlocks(runs, i) ==
    IF i > Len(runs) THEN <<>>
    ELSE (IF Has(runs[i], "stats") THEN <<runs[i].stats>> ELSE <<>>)
         \o RunStatsBlocks(runs, i + 1)

\* iter_stats_blocks without the per-run blocks
iter_stats_blocks_top_only(doc) ==
    IF Has(doc, "stats") THEN <<doc.stats>> ELSE <<>>

iter_stats_blocks(doc) ==
    (IF Has(doc, "stats") THEN <<doc.stats>> ELSE <<>>)
    \o (IF Has(doc, "runs") THEN RunStatsBlocks(doc.runs, 1) ELSE <<>>)

\* lines 638-655: the totals over the blocks from index i on
RECURSIVE SumStats(_, _)
SumStats(blocks, i) ==
    IF i > Len(blocks) THEN [tests |-> 0, passes |-> 0, failures |-> 0, pending |-> 0]
    ELSE LET rest == SumStats(blocks, i + 1)
             stats == blocks[i]
         IN  [tests |-> rest.tests + FirstCounter(stats, <<"tests">>, 1),
              passes |-> rest.passes
                  + FirstCounter(stats, <<"passes", "pass", "testsPassed", "successes">>, 1),
              failures |-> rest.failures
                  + FirstCounter(stats, <<"failures", "failed", "testsFailed", "fail">>, 1),
              pending |-> rest.pending
                  + FirstCounter(stats, <<"pending", "skipped">>, 1)]

aggregate_stats(doc) == SumStats(iter_stats_blocks(doc), 1)

-----------------------------------------------------------------------------
(* summarize_results: grader.py lines 406-455 *)

\* SummarizeStep with the fail-safe default lost: an unrecognised state is
\* counted as passed
SummarizeStepUnknownPasses(acc, test) ==
    LET se == extract_state_and_error(test)
        entry(flag) == [title |-> format_test_title(test), passed |-> flag,
                        state |-> se.state, error |-> se.error]
    IN  IF se.state \in FAIL_STATES
        THEN [acc EXCEPT !.failed = @ + 1, !.details = Append(@, entry(FALSE))]
        ELSE IF se.state \in PENDING_STATES
        THEN [acc EXCEPT !.pending = @ + 1, !.details = Append(@, entry(FALSE))]
        ELSE [acc EXCEPT !.passed = @ + 1, !.details = Append(@, entry(TRUE))]

\* lines 415-438: one pass of the loop body, on the counters and details so far
SummarizeStep(acc, test) ==
    LET se == extract_state_and_error(test)
        title == format_test_title(test)
        entry(flag, error) ==
            [title |-> title, passed |-> flag, state |-> se.state, error |-> error]
    IN  IF se.state \in PASS_STATES
        THEN [acc EXCEPT !.passed = @ + 1,
                         !.details = Append(@, entry(TRUE, se.error))]
        ELSE IF se.state \in FAIL_STATES
        THEN [acc EXCEPT !.failed = @ + 1,
                         !.details = Append(@, entry(FALSE, se.error))]
        ELSE IF se.state \in PENDING_STATES
        THEN [acc EXCEPT !.pending = @ + 1,
                         !.details = Append(@, entry(FALSE, se.error))]
        ELSE [acc EXCEPT !.failed = @ + 1,
                         !.details = Append(@, entry(FALSE,
                             IF se.error \in {NONE, ""}
                             THEN "Test reported unknown state" ELSE se.error))]

\* lines 411-438: the loop over the tests from index i on
RECURSIVE SummarizeLoop(_, _, _)
SummarizeLoop(tests, i, acc) ==
    IF i > Len(tests) THEN acc
    ELSE SummarizeLoop(tests, i + 1, SummarizeStep(acc, tests[i]))

\* lines 440-455: the fallback and the Summary returned
summarize_results(doc, pattern) ==
    LET acc == SummarizeLoop(iter_all_tests(doc, pattern), 1,
                   [passed |-> 0, failed |-> 0, pending |-> 0, details |-> <<>>])
        stats == aggregate_stats(doc)
    IN  IF acc.passed + acc.failed + acc.pending = 0
        THEN [total_tests |-> stats.passes + stats.failures + stats.pending,
              passed_tests |-> stats.passes,
              failed_tests |-> stats.failures,
              pending_tests |-> stats.pending,
              test_details |-> acc.details]
        ELSE [total_tests |-> acc.passed + acc.failed + acc.pending,
              passed_tests |-> acc.passed,
              failed_tests |-> acc.failed,
              pending_tests |-> acc.pending,
              test_details |-> acc.details]

-----------------------------------------------------------------------------
(* build_feedback_lines: grader.py lines 458-505.  A feedback line is a     *)
(* record tagged with the kind of line and holding the values formatted    *)
(* into it; a score is the fraction num / den.                             *)

\* lines 285-286: passed / max(1, passed + failed)
Score(passed, failed) == [num |-> passed, den |-> Max(1, passed + failed)]

\* lines 490-498: the lines of one detail entry
EntryLines(entry) ==
    LET prefix == IF entry.state \in FAIL_STATES THEN "fail"
                  ELSE IF entry.state \in PENDING_STATES THEN "pending"
                  ELSE "pass"
    IN  <<[kind |-> "detail", prefix |-> prefix, title |-> entry.title,
           state |-> entry.state]>>
        \o (IF entry.error \notin {NONE, ""} /\ entry.state \in FAIL_STATES
            THEN <<[kind |-> "error", error |-> entry.error]>> ELSE <<>>)

\* line 489: the lines of the entries i .. last
RECURSIVE EntriesLines(_, _, _)
EntriesLines(entries, i, last) ==
    IF i > last THEN <<>>
    ELSE EntryLines(entries[i]) \o EntriesLines(entries, i + 1, last)

\* DetailSection with the test for the note on the cut entries off by one
DetailSectionMoreAtCap(entries) ==
    IF Len(entries) > 0
    THEN <<[kind |-> "blank"], [kind |-> "details_header"]>>
         \o EntriesLines(entries, 1, Min(Len(entries), MAX_DETAIL_ENTRIES))
         \o (IF Len(entries) >= MAX_DETAIL_ENTRIES
             THEN <<[kind |-> "more", n |-> Len(entries) - MAX_DETAIL_ENTRIES]>>
             ELSE <<>>)
    ELSE <<>>

\* lines 486-503: the detailed list, cut at MAX_DETAIL_ENTRIES entries
DetailSection(entries) ==
    IF Len(entries) > 0
    THEN <<[kind |-> "blank"], [kind |-> "details_header"]>>
         \o EntriesLines(entries, 1, Min(Len(entries), MAX_DETAIL_ENTRIES))
         \o (IF Len(entries) > MAX_DETAIL_ENTRIES
             THEN <<[kind |-> "more", n |-> Len(entries) - MAX_DETAIL_ENTRIES]>>
             ELSE <<>>)
    ELSE <<>>

build_feedback_lines(passed, failed, pending, score, entries) ==
    LET executed == passed + failed
    IN  (IF failed = 0 /\ executed > 0
         THEN <<[kind |-> "all_passed"]>>
         ELSE <<[kind |-> "headline", passed |-> passed,
                 executed |-> Max(1, executed)]>>)
        \o (IF pending # 0 THEN <<[kind |-> "pending_note", n |-> pending]>> ELSE <<>>)
        \o <<[kind |-> "blank"],
             [kind |-> "summary_header"],
             [kind |-> "passed", n |-> passed],
             [kind |-> "failed", n |-> failed],
             [kind |-> "pending", n |-> pending],
             [kind |-> "score", score |-> score]>>
        \o DetailSection(entries)

-----------------------------------------------------------------------------
(* The documents, patterns and tests the model draws its inputs from *)

SeqsUpTo(S, n) == UNION {[1..k -> S] : k \in 0..n}

\* tests for the flat lists: one per way a state is reached and counted
SampleTests ==
    { [title |-> "t1", state |-> "passed"],
      [title |-> "t2", state |-> "Failed", err |-> [message |-> " boom "]],
      [title |-> "t3", state |-> "SKIPPED"],
      [title |-> "t4", state |-> "weird"],
      [title |-> "t5", state |-> "Unknown", err |-> EmptyObj],
      [title |-> "t6", err |-> [name |-> "AssertionError"]],
      [title |-> "t7", state |-> "failed",
       attempts |-> <<[state |-> "failed", error |-> [message |-> "e1"]],
                      [state |-> "passed"]>>],
      [title |-> "t8", state |-> "passed", err |-> EmptyObj,
       attempts |-> <<[state |-> "unknown"], [message |-> "late"]>>] }

\* more tests, used one at a time
OtherTests ==
    { [name |-> "n1", pass |-> TRUE],
      [id |-> "i1", failed |-> TRUE, error |-> "bad"],
      [pending |-> TRUE],
      [state |-> "Broken", displayError |-> "oops"],
      [status |-> "success"],
      [title |-> "t9", err |-> EmptyObj],
      [title |-> "t10", state |-> "passed", attempts |-> <<[state |-> ""]>>] }

PassedTest == [title |-> "t1", state |-> "passed"]
FailedTest == [title |-> "t2", state |-> "Failed", err |-> [message |-> " boom "]]
PendingTest == [title |-> "t3", state |-> "SKIPPED"]

SampleStats ==
    { [tests |-> 5, passes |-> 3, failures |-> 2],
      [passes |-> 0, pass |-> 2, skipped |-> 1],
      [testsPassed |-> 1, failed |-> 1, pending |-> 1],
      [testsRegistered |-> 4],
      [passes |-> 3, failures |-> -1],
      EmptyObj }

SampleSuites ==
    <<[tests |-> <<FailedTest>>,
       suites |-> <<[tests |-> <<PassedTest>>], [suites |-> <<>>]>>],
      [tests |-> <<PendingTest>>]>>

SampleSpecs ==
    { [relative |-> <<"a", "b">>],
      [name |-> <<"A">>],
      [relative |-> <<>>, name |-> <<"b">>] }

\* what a run holds besides its spec
RunBodies ==
    { [tests |-> <<PassedTest>>],
      [tests |-> <<FailedTest, PassedTest>>, stats |-> [passes |-> 1, failures |-> 1]],
      [suites |-> SampleSuites],
      [stats |-> [tests |-> 2, passes |-> 2]] }

WithSpec(body, spec) == [k \in DOMAIN body \cup {"spec"} |->
                            IF k = "spec" THEN spec ELSE body[k]]

SampleRuns == RunBodies \cup {WithSpec(b, sp) : b \in RunBodies, sp \in SampleSpecs}

ScenarioB == [stats |-> [tests |-> 5, passes |-> 3, failures |-> 2]]

FlatDocs == {[tests |-> ts] : ts \in SeqsUpTo(SampleTests, MaxTests)}
               \cup {[tests |-> <<t>>] : t \in OtherTests}
RunDocs == {[runs |-> rs] : rs \in SeqsUpTo(SampleRuns, MaxRuns)}
StatsDocs == {[stats |-> st] : st \in SampleStats}
MixedDocs ==
    { [runs |-> <<WithSpec([tests |-> <<PassedTest>>], [name |-> <<"A">>])>>,
       tests |-> <<FailedTest>>,
       results |-> <<[suites |-> SampleSuites], EmptyObj>>],
      [runs |-> <<WithSpec([tests |-> <<FailedTest>>], [name |-> <<"A">>])>>,
       stats |-> [tests |-> 1, failures |-> 1]],
      [results |-> <<[suites |-> SampleSuites]>>],
      [results |-> <<>>, stats |-> [passes |-> 2, pending |-> 1]] }

Docs == FlatDocs \cup RunDocs \cup StatsDocs \cup MixedDocs

Patterns ==
    { NoPattern,
      StrPattern(<<>>),
      StrPattern(<<"a">>),
      StrPattern(<<"B">>),
      StrPattern(<<"(">>),
      DictPattern([p1 |-> <<"a">>]),
      DictPattern(EmptyObj) }

-----------------------------------------------------------------------------
(* SpecSummary: one call of summarize_results(data, spec_pattern) *)

NoSummary == EmptyObj
NoExc == [kind |-> "none"]
NoRet == [outcome |-> "none"]
NoBytes == [kind |-> "none"]
NoFiles == [openssl |-> TRUE, learn |-> FALSE, files |-> {}]

\* the variables a specification does not use keep these values
IdleRun == part_id = NONE /\ config = NoPattern /\ spec_pattern = NoPattern
IdleWorld == env = EmptyObj /\ secret_file = [kind |-> "missing"] /\ fs = NoFiles
IdleSecret == cached_secret = NONE /\ secret_initialised = FALSE /\ ret = NoRet
IdleLoad ==
    /\ results_path = NoPathFound
    /\ raw_bytes = NoBytes
    /\ attempted_decrypt = FALSE
    /\ decrypts = 0
IdleGrade == data = EmptyObj /\ summary = NoSummary /\ details = <<>> /\ lines = <<>>
IdleOut == feedback = <<>> /\ exc = NoExc

InitSummary ==
    /\ pc = "summarize"
    /\ data \in Docs
    /\ spec_pattern \in Patterns
    /\ part_id = NONE
    /\ config = NoPattern
    /\ summary = NoSummary
    /\ details = <<>>
    /\ lines = <<>>
    /\ IdleWorld /\ IdleSecret /\ IdleLoad /\ IdleOut

\* the call returns a Summary
SummarizeReturn ==
    /\ pc = "summarize"
    /\ ~iter_all_tests_raises(data, spec_pattern)
    /\ summary' = summarize_results(data, spec_pattern)
    /\ pc' = "returned"
    /\ UNCHANGED <<runVars, worldVars, secretVars, loadVars, data, details, lines, outVars>>

\* re.search raises inside the walk and the call ends with that exception
SummarizeRaise ==
    /\ pc = "summarize"
    /\ iter_all_tests_raises(data, spec_pattern)
    /\ exc' = [kind |-> "Exception", msg |-> "re.search"]
    /\ pc' = "raised"
    /\ UNCHANGED <<runVars, worldVars, secretVars, loadVars, gradeVars, feedback>>

NextSummary == SummarizeReturn \/ SummarizeRaise

SpecSummary == InitSummary /\ [][NextSummary]_vars

-----------------------------------------------------------------------------
(* Claims about summarize_results, checked under SpecSummary *)

\* the tests the walk of the call's document yields
WalkedTests == iter_all_tests(data, spec_pattern)

\* the state of a test after lower-casing and the attempts override
OverriddenState(test) == AttemptsOverride(test).state

\* the test has state "unknown" after the attempts override and an empty err object
UnknownWithEmptyErr(test) ==
    OverriddenState(test) = "unknown" /\ Has(test, "err") /\ DOMAIN test.err = {}

IndicesWhere(P(_)) == {i \in 1..Len(WalkedTests) : P(WalkedTests[i])}

\* C4 as stated: a test whose state after lower-casing and the attempts
\* override is not in the passed set is never counted as passed
C4_NonPassStateNeverPassed ==
    pc = "returned" /\ Len(WalkedTests) > 0 =>
        /\ Len(summary.test_details) = Len(WalkedTests)
        /\ \A i \in 1..Len(WalkedTests) :
              OverriddenState(WalkedTests[i]) \notin PASS_STATES
                  => ~summary.test_details[i].passed
        /\ summary.passed_tests
              = Cardinality(IndicesWhere(LAMBDA t : OverriddenState(t) \in PASS_STATES))

\* C4 amended: a test whose state after lower-casing and the attempts override
\* is not in the passed set is counted as passed only when that state is
\* "unknown" and the test's err field is an empty object; otherwise it is
\* counted as pending if the state is in the pending set and as failed if not
C4_NonPassStateNeverPassedUnlessEmptyErr ==
    pc = "returned" /\ Len(WalkedTests) > 0 =>
        LET countedPassed(t) ==
                OverriddenState(t) \in PASS_STATES \/ UnknownWithEmptyErr(t)
            countedPending(t) == OverriddenState(t) \in PENDING_STATES
        IN  /\ Len(summary.test_details) = Len(WalkedTests)
            /\ \A i \in 1..Len(WalkedTests) :
                  summary.test_details[i].passed <=> countedPassed(WalkedTests[i])
            /\ summary.passed_tests = Cardinality(IndicesWhere(countedPassed))
            /\ summary.pending_tests = Cardinality(IndicesWhere(countedPending))
            /\ summary.failed_tests
                  = Cardinality(IndicesWhere(
                        LAMBDA t : ~countedPassed(t) /\ ~countedPending(t)))

\* C4 witness: a returned Summary over a test in an unrecognised state and a
\* test in state "unknown" with an empty err object
C4_Witness ==
    /\ pc = "returned"
    /\ \E i \in 1..Len(WalkedTests) : OverriddenState(WalkedTests[i]) = "weird"
    /\ \E i \in 1..Len(WalkedTests) : UnknownWithEmptyErr(WalkedTests[i])
    /\ summary.failed_tests > 0
    /\ summary.passed_tests > 0

\* the document without the runs the filter skips
WithoutSkippedRuns(doc, pattern) ==
    IF Has(doc, "runs")
    THEN [doc EXCEPT !.runs = SelectSeq(@, LAMBDA r : ~RunSkipped(r, pattern))]
    ELSE doc

\* C5 as stated: with a filter pattern set, the runs whose spec name does not
\* match contribute nothing to the Summary: it is the Summary of the document
\* without those runs, also when every run is skipped and the stats fallback
\* supplies the counts
C5_SkippedRunsContributeNothing ==
    pc = "returned" /\ PatternTruthy(spec_pattern) =>
        summary = summarize_results(WithoutSkippedRuns(data, spec_pattern), spec_pattern)

RECURSIVE SeqSum(_)
SeqSum(s) == IF s = <<>> THEN 0 ELSE Head(s) + SeqSum(Tail(s))

\* the sum over the top-level stats block and every run's stats block of the
\* first non-zero counter among the spellings keys
CounterSum(doc, keys) ==
    (IF Has(doc, "stats") THEN FirstCounter(doc.stats, keys, 1) ELSE 0)
    + (IF Has(doc, "runs")
       THEN SeqSum([i \in 1..Len(doc.runs) |->
                       IF Has(doc.runs[i], "stats")
                       THEN FirstCounter(doc.runs[i].stats, keys, 1) ELSE 0])
       ELSE 0)

\* C10: when the walk yields no test, passed, failed and pending are the sums
\* of the counters over the top-level and per-run stats blocks and the detail
\* list is empty; the document of Scenario B gives total 5, passed 3, failed 2,
\* pending 0
C10_StatsFallback ==
    pc = "returned" /\ Len(WalkedTests) = 0 =>
        /\ summary.passed_tests
              = CounterSum(data, <<"passes", "pass", "testsPassed", "successes">>)
        /\ summary.failed_tests
              = CounterSum(data, <<"failures", "failed", "testsFailed", "fail">>)
        /\ summary.pending_tests = CounterSum(data, <<"pending", "skipped">>)
        /\ summary.test_details = <<>>
        /\ data = ScenarioB =>
              summary = [total_tests |-> 5, passed_tests |-> 3, failed_tests |-> 2,
                         pending_tests |-> 0, test_details |-> <<>>]

\* C10 witness: a returned Summary of a document with no test, a top-level
\* stats block or two runs with stats blocks, and non-zero sums
C10_Witness ==
    /\ pc = "returned"
    /\ Len(WalkedTests) = 0
    /\ Has(data, "runs") /\ Len(data.runs) = 2
    /\ \A i \in 1..2 : Has(data.runs[i], "stats")
    /\ summary.passed_tests = 4

\* C10 witness for Scenario B is the state reached from ScenarioB itself
C10_ScenarioBReached == pc = "returned" /\ data = ScenarioB

-----------------------------------------------------------------------------
(* SpecFeedback: one call of build_feedback_lines on the Summary of a       *)
(* document, as main makes it (grader.py lines 274-288)                    *)

MaxDetails == 22        \* longest detail list of a generated Summary

LongTestPool == <<PassedTest, FailedTest, PendingTest,
                  [state |-> "weird"],
                  [state |-> "Broken", displayError |-> "oops"],
                  [err |-> EmptyObj],
                  [state |-> "failed"]>>

\* a list of n tests titled "1" .. "n", cycling through the pool from offset k
LongTests(n, k) ==
    [i \in 1..n |->
        LET t == LongTestPool[((i + k) % Len(LongTestPool)) + 1]
        IN  [f \in DOMAIN t \cup {"title"} |->
                IF f = "title" THEN ToString(i) ELSE t[f]]]

LongDocs == {[tests |-> LongTests(n, k)] :
                n \in 0..MaxDetails, k \in 0..(Len(LongTestPool) - 1)}

InitFeedback ==
    /\ pc = "format"
    /\ data \in LongDocs \cup StatsDocs
    /\ spec_pattern = NoPattern
    /\ summary = summarize_results(data, spec_pattern)
    /\ details = summary.test_details
    /\ part_id = NONE
    /\ config = NoPattern
    /\ lines = <<>>
    /\ IdleWorld /\ IdleSecret /\ IdleLoad /\ IdleOut

BuildFeedbackLines ==
    /\ pc = "format"
    /\ lines' = build_feedback_lines(summary.passed_tests, summary.failed_tests,
                    summary.pending_tests,
                    Score(summary.passed_tests, summary.failed_tests), details)
    /\ pc' = "formatted"
    /\ UNCHANGED <<runVars, worldVars, secretVars, loadVars, data, summary, details, outVars>>

NextFeedback == BuildFeedbackLines

SpecFeedback == InitFeedback /\ [][NextFeedback]_vars

LinesOfKind(k) == SelectSeq(lines, LAMBDA l : l.kind = k)

\* C9: the feedback holds detail entries for the first min(len, 20) tests of
\* the detail list, in input order, and the line "...and N more test results."
\* appears if and only if the list has more than 20 entries, with N the number
\* of entries beyond the cap
C9_DetailTruncation ==
    pc = "formatted" =>
        LET shown == LinesOfKind("detail")
            more == LinesOfKind("more")
        IN  /\ Len(shown) <= MAX_DETAIL_ENTRIES
            /\ Len(shown) = Min(Len(details), MAX_DETAIL_ENTRIES)
            /\ \A i \in 1..Len(shown) :
                  /\ shown[i].title = details[i].title
                  /\ shown[i].state = details[i].state
            /\ Len(more) > 0 <=> Len(details) > MAX_DETAIL_ENTRIES
            /\ Len(more) <= 1
            /\ \A i \in 1..Len(more) : more[i].n = Len(details) - MAX_DETAIL_ENTRIES

\* C9 witness: feedback built from a detail list two entries over the cap
C9_Witness ==
    /\ pc = "formatted"
    /\ Len(details) = MAX_DETAIL_ENTRIES + 2
    /\ Len(LinesOfKind("more")) = 1

-----------------------------------------------------------------------------
(* SpecSecret: calls of get_results_secret in one process, with the         *)
(* environment and the secret file changing between calls                  *)

PartIds == {NONE, "", "A1B2"}

SecretEnvs ==
    { [k \in ks |-> IF k = "CYPRESS_RESULTS_SECRET" THEN sv ELSE fv] :
        ks \in SUBSET {"CYPRESS_RESULTS_SECRET", "CYPRESS_RESULTS_SECRET_FILE"},
        sv \in {"", "  ", "envkey", " envkey "},
        fv \in {"", "/run/secret"} }

SecretFiles ==
    { [kind |-> "missing"], [kind |-> "unreadable"], [kind |-> "badutf8"] }
    \cup { [kind |-> "text", val |-> t] : t \in {"", "  ", "filekey", " filekey "} }

InitSecret ==
    /\ pc = "idle"
    /\ env \in SecretEnvs
    /\ secret_file \in SecretFiles
    /\ fs = NoFiles
    /\ IdleSecret
    /\ IdleRun /\ IdleLoad /\ IdleGrade /\ IdleOut

\* one call get_results_secret(pid, required): the globals it leaves and the
\* record of its outcome
GetResultsSecretCall ==
    \E pid \in PartIds, required \in BOOLEAN :
        LET r == get_results_secret(cached_secret, secret_initialised, env,
                                    secret_file, pid, required)
        IN  /\ cached_secret' = r.cached
            /\ secret_initialised' = r.initialised
            /\ ret' = [outcome |-> r.outcome, value |-> r.value, exc |-> r.exc,
                       part_id |-> pid, required |-> required,
                       first |-> ~secret_initialised]
            /\ pc' = "called"
            /\ UNCHANGED <<runVars, worldVars, loadVars, gradeVars, outVars>>

\* the environment or the secret file changes between two calls
EnvChange ==
    /\ pc = "called"
    /\ env' \in SecretEnvs
    /\ secret_file' \in SecretFiles
    /\ <<env', secret_file'>> # <<env, secret_file>>
    /\ pc' = "idle"
    /\ ret' = NoRet
    /\ UNCHANGED <<runVars, fs, cached_secret, secret_initialised, loadVars,
                   gradeVars, outVars>>

NextSecret == GetResultsSecretCall \/ EnvChange

SpecSecret == InitSecret /\ [][NextSecret]_vars

\* the first non-empty string of a sequence, "" when there is none
RECURSIVE FirstNonEmpty(_)
FirstNonEmpty(seq) ==
    IF seq = <<>> THEN ""
    ELSE IF Head(seq) # "" THEN Head(seq) ELSE FirstNonEmpty(Tail(seq))

\* C7 as stated: the first resolution returns the first non-empty value among
\* the trimmed contents of the secret file, the secret environment variable,
\* the rubric identifier and the default placeholder, in that order
C7_FirstNonEmptySourceWins ==
    pc = "called" /\ ret.first /\ ret.outcome = "return" =>
        ret.value = FirstNonEmpty(
            << IF EnvTruthy(env, "CYPRESS_RESULTS_SECRET_FILE")
               THEN Strip(secret_file.val) ELSE "",
               IF Has(env, "CYPRESS_RESULTS_SECRET")
               THEN Strip(env.CYPRESS_RESULTS_SECRET) ELSE "",
               IF ret.part_id = NONE THEN "" ELSE ret.part_id,
               DEFAULT_SECRET_VALUE >>)

-----------------------------------------------------------------------------
(* load_results: grader.py lines 357-403, one action per step of the call   *)

\* the except clauses of the loop (lines 365-375 and 379-389): one decrypt of
\* the same file and back to the top of the loop, or the error msg
RetryOrRaise(msg) ==
    IF NoRetry(env, results_path, attempted_decrypt)
    THEN /\ exc' = CypressResultsError(msg)
         /\ pc' = "except"
         /\ UNCHANGED <<raw_bytes, attempted_decrypt, decrypts, cached_secret,
                        secret_initialised>>
    ELSE LET r == decrypt_results_file(cached_secret, secret_initialised, env,
                                       secret_file, fs, results_path, part_id)
         IN  /\ decrypts' = decrypts + 1
             /\ cached_secret' = r.cached
             /\ secret_initialised' = r.initialised
             /\ IF r.outcome = "return"
                THEN /\ raw_bytes' = r.bytes
                     /\ attempted_decrypt' = TRUE
                     /\ pc' = "load_decode"
                     /\ UNCHANGED exc
                ELSE /\ exc' = r.exc
                     /\ pc' = "except"
                     /\ UNCHANGED <<raw_bytes, attempted_decrypt>>

\* lines 359-360: attempted_decrypt = False; raw_bytes = read_results_bytes(...)
LoadRead ==
    /\ pc = "load_read"
    /\ LET r == read_results_bytes(cached_secret, secret_initialised, env,
                                   secret_file, fs, results_path, part_id)
       IN  /\ attempted_decrypt' = FALSE
           /\ decrypts' = IF should_treat_as_encrypted(env, results_path)
                          THEN 1 ELSE 0
           /\ cached_secret' = r.cached
           /\ secret_initialised' = r.initialised
           /\ IF r.outcome = "return"
              THEN raw_bytes' = r.bytes /\ pc' = "load_decode" /\ UNCHANGED exc
              ELSE raw_bytes' = NoBytes /\ pc' = "except" /\ exc' = r.exc
    /\ UNCHANGED <<runVars, worldVars, ret, results_path, gradeVars, feedback>>

\* lines 363-375: text = raw_bytes.decode("utf-8")
LoadDecode ==
    /\ pc = "load_decode"
    /\ IF DecodesAsUtf8(raw_bytes)
       THEN /\ pc' = "load_parse"
            /\ UNCHANGED <<raw_bytes, attempted_decrypt, decrypts, cached_secret,
                           secret_initialised, exc>>
       ELSE RetryOrRaise(MsgNotUtf8)
    /\ UNCHANGED <<runVars, worldVars, ret, results_path, gradeVars, feedback>>

\* lines 377-391: data = json.loads(text)
LoadParse ==
    /\ pc = "load_parse"
    /\ IF ParsesAsJson(raw_bytes)
       THEN /\ pc' = "load_check"
            /\ UNCHANGED <<raw_bytes, attempted_decrypt, decrypts, cached_secret,
                           secret_initialised, exc>>
       ELSE RetryOrRaise(MsgNotJson)
    /\ UNCHANGED <<runVars, worldVars, ret, results_path, gradeVars, feedback>>

\* lines 393-403: the top level is an object that looks like Cypress results
LoadCheck ==
    /\ pc = "load_check"
    /\ IF raw_bytes.kind = "nonobject"
       THEN exc' = CypressResultsError(MsgNotObject) /\ pc' = "except"
            /\ UNCHANGED data
       ELSE IF ~is_probably_cypress_results(raw_bytes.doc)
       THEN exc' = CypressResultsError(MsgNotCypress) /\ pc' = "except"
            /\ UNCHANGED data
       ELSE data' = raw_bytes.doc /\ pc' = "summarize" /\ UNCHANGED exc
    /\ UNCHANGED <<runVars, worldVars, secretVars, loadVars, summary, details,
                   lines, feedback>>

-----------------------------------------------------------------------------
(* SpecLoad: one call load_results(results_path, part_id) in a fresh process *)

GoodDoc == [runs |-> <<[tests |-> <<PassedTest, FailedTest>>]>>]

PlainBytes ==
    { [kind |-> "json", doc |-> GoodDoc],
      [kind |-> "json", doc |-> EmptyObj],
      [kind |-> "nonobject"],
      [kind |-> "badjson"],
      [kind |-> "badutf8"] }

Keys == {"envkey", "A1B2", DEFAULT_SECRET_VALUE, "otherkey"}

Encrypted(S) == {[kind |-> "cipher", key |-> k, plain |-> b] : k \in Keys, b \in S}

LoadBytes ==
    PlainBytes \cup {[kind |-> "unreadable"]} \cup Encrypted(PlainBytes)
    \cup Encrypted(Encrypted({[kind |-> "json", doc |-> GoodDoc]}))

LoadNames ==
    { <<"cypress-results", ".json">>,
      <<"cypress-results", ".json", ".enc">>,
      <<"results", ".ENC">> }

LoadEnvs ==
    { [k \in ks |-> IF k = "CYPRESS_RESULTS_SECRET" THEN "envkey" ELSE fv] :
        ks \in SUBSET {"CYPRESS_RESULTS_SECRET", "CYPRESS_RESULTS_ENCRYPTED"},
        fv \in {"TRUE", "0", "maybe"} }

InitLoad ==
    /\ pc = "load_read"
    /\ part_id \in {NONE, "A1B2"}
    /\ env \in LoadEnvs
    /\ secret_file = [kind |-> "missing"]
    /\ results_path \in {[root |-> "submission", name |-> n] : n \in LoadNames}
    /\ \E b \in LoadBytes, o \in BOOLEAN :
          fs = [openssl |-> o, learn |-> FALSE,
                files |-> {[root |-> results_path.root, name |-> results_path.name,
                            bytes |-> b]}]
    /\ raw_bytes = NoBytes /\ attempted_decrypt = FALSE /\ decrypts = 0
    /\ config = NoPattern /\ spec_pattern = NoPattern
    /\ IdleSecret /\ IdleGrade /\ IdleOut

NextLoad == LoadRead \/ LoadDecode \/ LoadParse \/ LoadCheck

SpecLoad == InitLoad /\ [][NextLoad]_vars

\* the scheduling of a sequential call: a step that can be taken is taken
SpecLoadFair == SpecLoad /\ WF_vars(NextLoad)

\* the load_results call has ended, by returning or by raising
LoadEnded == pc \in {"summarize", "except"}

\* decoding or JSON-parsing the bytes read from the file fails
PlainParseFails ==
    BytesAt(fs, results_path).kind \in {"badjson", "badutf8", "cipher"}

C6_Safety ==
    \* the decrypt happens at most once per call
    /\ decrypts <= 1
    \* no retry for an artifact treated as encrypted
    /\ should_treat_as_encrypted(env, results_path) => ~attempted_decrypt
    \* a failed parse of an artifact not treated as encrypted: exactly one retry
    /\ LoadEnded /\ ~should_treat_as_encrypted(env, results_path) /\ PlainParseFails
          => decrypts = 1
    \* the retry is made only after such a failure
    /\ attempted_decrypt => PlainParseFails /\ decrypts = 1
    \* the re-parse fails too: input-malformed
    /\ LoadEnded /\ attempted_decrypt
          /\ ~(DecodesAsUtf8(raw_bytes) /\ ParsesAsJson(raw_bytes))
          => pc = "except" /\ exc = CypressResultsError(
                 IF DecodesAsUtf8(raw_bytes) THEN MsgNotJson ELSE MsgNotUtf8)

\* C6: when decoding or parsing fails and the artifact is not treated as
\* encrypted, exactly one retry decrypts the same file and re-parses; a failed
\* re-parse ends the call with an input-malformed error; the decrypt happens at
\* most once per call, never as a retry for an artifact treated as encrypted,
\* and the call always ends
C6_OneRetryThenMalformed == []C6_Safety /\ <>LoadEnded

\* C6 witness: the call ended by the input-malformed error after the one retry
\* decrypted the file and the re-parse failed
C6_Witness ==
    /\ pc = "except"
    /\ attempted_decrypt
    /\ decrypts = 1
    /\ raw_bytes.kind = "badjson"
    /\ exc = CypressResultsError(MsgNotJson)

-----------------------------------------------------------------------------
(* The grading run: grader.py lines 252-296 (main) and 704-723 (the         *)
(* entrypoint), util.py lines 9-29 (send_feedback)                         *)

Zero == [num |-> 0, den |-> 1]
One == [num |-> 1, den |-> 1]

\* util.py line 11: max(0.0, min(1.0, float(score)))
Clamp(score) ==
    IF score.num > score.den THEN One
    ELSE IF score.num < 0 THEN Zero
    ELSE score

\* util.py lines 9-29: the record send_feedback prints and writes
send_feedback(score, msg) == [fractionalScore |-> Clamp(score), feedback |-> msg]

\* the feedback texts: str(err), the f-string of line 296, the joined lines
ErrorText(err) == [kind |-> "error", msg |-> err.msg]
UnexpectedText(err) == [kind |-> "unexpected", msg |-> err.msg]
LinesText(ls) == [kind |-> "lines", lines |-> ls]

\* lines 285-286 with the pending count in the denominator
ScoreOfTotal(s) ==
    [num |-> s.passed_tests,
     den |-> Max(1, s.passed_tests + s.failed_tests + s.pending_tests)]

\* lines 285-286: score = passed / max(1, passed + failed)
ScoreOf(s) == Score(s.passed_tests, s.failed_tests)

\* lines 706-709: part_id from the environment, else the first argument
Entrypoint ==
    /\ pc = "entry"
    /\ part_id' = IF EnvTruthy(env, "partId") THEN env.partId
                  ELSE IF Has(env, "argv1") THEN env.argv1
                  ELSE IF Has(env, "partId") THEN env.partId
                  ELSE NONE
    /\ pc' = "main"
    /\ UNCHANGED <<config, spec_pattern, worldVars, secretVars, loadVars,
                   gradeVars, outVars>>

\* lines 256-266: the pattern of the configuration; a mapping is looked up
\* only when part_id is set
MainConfig ==
    /\ pc = "main"
    /\ spec_pattern' =
          IF config.kind = "dict" /\ part_id \notin {NONE, ""}
          THEN IF Has(config.val, part_id) THEN StrPattern(config.val[part_id])
               ELSE NoPattern
          ELSE config
    /\ pc' = "locate"
    /\ UNCHANGED <<part_id, config, worldVars, secretVars, loadVars, gradeVars,
                   outVars>>

\* line 268: results_path = locate_results_file(part_id)
MainLocate ==
    /\ pc = "locate"
    /\ \E r \in {locate_results_file(cached_secret, secret_initialised, env,
                                     secret_file, fs, part_id)} :
           /\ cached_secret' = r.cached
           /\ secret_initialised' = r.initialised
           /\ IF r.outcome = "return"
              THEN results_path' = r.path /\ pc' = "load_read" /\ UNCHANGED exc
              ELSE exc' = r.exc /\ pc' = "except" /\ UNCHANGED results_path
    /\ UNCHANGED <<runVars, worldVars, ret, raw_bytes, attempted_decrypt, decrypts,
                   gradeVars, feedback>>

\* line 272: summary = summarize_results(results_data, spec_pattern)
MainSummarize ==
    /\ pc = "summarize"
    /\ IF iter_all_tests_raises(data, spec_pattern)
       THEN exc' = OtherException("re.search") /\ pc' = "except" /\ UNCHANGED summary
       ELSE summary' = summarize_results(data, spec_pattern) /\ pc' = "score"
            /\ UNCHANGED exc
    /\ UNCHANGED <<runVars, worldVars, secretVars, loadVars, data, details, lines,
                   feedback>>

\* MainScore with line 280 testing the executed tests, passed + failed,
\* instead of the total
MainScoreNoneExecuted ==
    /\ pc = "score"
    /\ IF summary.passed_tests + summary.failed_tests = 0
       THEN /\ exc' = CypressResultsError(MsgNoTests)
            /\ pc' = "except"
            /\ UNCHANGED <<details, lines, feedback>>
       ELSE /\ details' = summary.test_details
            /\ lines' = build_feedback_lines(summary.passed_tests,
                            summary.failed_tests, summary.pending_tests,
                            ScoreOf(summary), summary.test_details)
            /\ feedback' = Append(feedback,
                               send_feedback(ScoreOf(summary), LinesText(lines')))
            /\ pc' = "done"
            /\ UNCHANGED exc
    /\ UNCHANGED <<runVars, worldVars, secretVars, loadVars, data, summary>>

\* lines 274-289: no tests is an error; else the score and the feedback
MainScore ==
    /\ pc = "score"
    /\ IF summary.total_tests = 0
       THEN /\ exc' = CypressResultsError(MsgNoTests)
            /\ pc' = "except"
            /\ UNCHANGED <<details, lines, feedback>>
       ELSE /\ details' = summary.test_details
            /\ lines' = build_feedback_lines(summary.passed_tests,
                            summary.failed_tests, summary.pending_tests,
                            ScoreOf(summary), summary.test_details)
            /\ feedback' = Append(feedback,
                               send_feedback(ScoreOf(summary), LinesText(lines')))
            /\ pc' = "done"
            /\ UNCHANGED exc
    /\ UNCHANGED <<runVars, worldVars, secretVars, loadVars, data, summary>>

\* HandleException without the call of line 296
HandleExceptionSilent ==
    /\ pc = "except"
    /\ exc.kind = "Exception"
    /\ pc' = "done"
    /\ UNCHANGED <<runVars, worldVars, secretVars, loadVars, gradeVars, outVars>>

\* HandleCypressResultsError sending the generic text instead of str(err)
HandleCypressResultsErrorGeneric ==
    /\ pc = "except"
    /\ exc.kind = "CypressResultsError"
    /\ feedback' = Append(feedback, send_feedback(Zero, UnexpectedText(exc)))
    /\ pc' = "done"
    /\ UNCHANGED <<runVars, worldVars, secretVars, loadVars, gradeVars, exc>>

\* lines 291-293: except CypressResultsError
HandleCypressResultsError ==
    /\ pc = "except"
    /\ exc.kind = "CypressResultsError"
    /\ feedback' = Append(feedback, send_feedback(Zero, ErrorText(exc)))
    /\ pc' = "done"
    /\ UNCHANGED <<runVars, worldVars, secretVars, loadVars, gradeVars, exc>>

\* lines 294-296: except Exception
HandleException ==
    /\ pc = "except"
    /\ exc.kind = "Exception"
    /\ feedback' = Append(feedback, send_feedback(Zero, UnexpectedText(exc)))
    /\ pc' = "done"
    /\ UNCHANGED <<runVars, worldVars, secretVars, loadVars, gradeVars, exc>>

-----------------------------------------------------------------------------
(* Spec: one grading run, from the entrypoint to the end of the process     *)

Merge(a, b) == [k \in DOMAIN a \cup DOMAIN b |-> IF k \in DOMAIN a THEN a[k] ELSE b[k]]

File(root, name, bytes) == [root |-> root, name |-> name, bytes |-> bytes]
World(openssl, learn, files) == [openssl |-> openssl, learn |-> learn, files |-> files]
Json(doc) == [kind |-> "json", doc |-> doc]
Cipher(k, bytes) == [kind |-> "cipher", key |-> k, plain |-> bytes]

FilterDoc ==
    [runs |-> << WithSpec([tests |-> <<PassedTest>>], [name |-> <<"A">>]),
                 WithSpec([tests |-> <<FailedTest, PendingTest>>,
                           stats |-> [passes |-> 0, failures |-> 1, pending |-> 1]],
                          [relative |-> <<"b">>]) >>]

MainDocs ==
    { GoodDoc, FilterDoc, ScenarioB, EmptyObj,
      [tests |-> <<PendingTest>>],
      [tests |-> <<PassedTest, PendingTest, [title |-> "t4", state |-> "weird"]>>],
      [runs |-> <<>>],
      [stats |-> [testsRegistered |-> 4]],
      [stats |-> [passes |-> 3, failures |-> -1]],
      [stats |-> [passes |-> 1, failures |-> 1, skipped |-> 2]],
      [stats |-> [pending |-> 2]],
      [results |-> <<[suites |-> SampleSuites]>>] }

MainWorlds ==
    { World(TRUE, FALSE, {}) }
    \cup { World(TRUE, FALSE, {File("submission", DEFAULT_RESULTS_FILENAME, b)}) :
             b \in {Json(d) : d \in MainDocs}
                   \cup { [kind |-> "badjson"], [kind |-> "badutf8"],
                          [kind |-> "nonobject"], [kind |-> "unreadable"],
                          Cipher("A1B2", Json(GoodDoc)) } }
    \cup { World(TRUE, FALSE,
                 {File("submission", Append(DEFAULT_RESULTS_FILENAME, ".enc"),
                       Cipher(k, b))}) :
             k \in Keys, b \in {Json(GoodDoc), [kind |-> "badjson"]} }
    \cup { World(FALSE, FALSE,
                 {File("submission", Append(DEFAULT_RESULTS_FILENAME, ".enc"),
                       Cipher("A1B2", Json(GoodDoc)))}) }
    \cup { World(TRUE, FALSE,
                 {File("submission", Append(DEFAULT_RESULTS_FILENAME, ".enc"),
                       Cipher("A1B2", Json(d)))}) : d \in MainDocs }
    \cup { World(TRUE, FALSE,
                 {File("submission", <<"backup", ".enc">>, Cipher(k, Json(GoodDoc)))}) :
             k \in Keys }
    \cup { World(TRUE, TRUE,
                 {File("learn", <<"report", ".json">>, Json(GoodDoc)),
                  File("submission", <<"mochawesome", ".json">>, Json(ScenarioB))}),
           World(TRUE, TRUE,
                 {File("learn", <<"report", ".enc">>, Cipher("A1B2", Json(GoodDoc))),
                  File("submission", <<"report", ".json">>, Json(ScenarioB))}),
           World(TRUE, FALSE,
                 {File("explicit", <<"out", ".json">>, Json(FilterDoc))}),
           World(TRUE, TRUE,
                 {File("learn", Append(DEFAULT_RESULTS_FILENAME, ".enc"),
                       Cipher("A1B2", Json(GoodDoc))),
                  File("submission", DEFAULT_RESULTS_FILENAME, Json(ScenarioB))}),
           World(TRUE, FALSE,
                 {File("submission", Append(DEFAULT_RESULTS_FILENAME, ".enc"),
                       Cipher("A1B2", Json(GoodDoc))),
                  File("submission", DEFAULT_RESULTS_FILENAME, Json(ScenarioB))}),
           World(TRUE, FALSE,
                 {File("submission", <<"cypress-results", ".enc">>,
                       Cipher("A1B2", Json(ScenarioB))),
                  File("submission", <<"report", ".json">>, Json(GoodDoc))}) }

\* the rubric identifier: unset, in the environment, as the argument, or empty
IdEnvs == { EmptyObj, [partId |-> "A1B2"], [argv1 |-> "A1B2"], [partId |-> ""] }

KeyEnvs == { EmptyObj, [CYPRESS_RESULTS_SECRET |-> "envkey"],
             [CYPRESS_RESULTS_SECRET_FILE |-> "/run/secret"] }

PathEnvs == { EmptyObj,
              [CYPRESS_RESULTS_PATH |-> <<"out", ".json">>],
              [CYPRESS_RESULTS_FILENAME |-> <<"report", ".json">>] }

MainEnvs == {Merge(Merge(i, k), x) : i \in IdEnvs, k \in KeyEnvs, x \in PathEnvs}

\* config["cypressSpecPattern"]: absent, a string, or a mapping by identifier
Configs ==
    { NoPattern,
      StrPattern(<<"a">>),
      StrPattern(<<"(">>),
      DictPattern([A1B2 |-> <<"a">>]),
      DictPattern([other |-> <<"b">>]),
      DictPattern(EmptyObj) }

Init ==
    /\ pc = "entry"
    /\ env \in MainEnvs
    /\ secret_file \in
          IF Has(env, "CYPRESS_RESULTS_SECRET_FILE")
          THEN {[kind |-> "missing"], [kind |-> "text", val |-> " filekey "]}
          ELSE {[kind |-> "missing"]}
    /\ fs \in MainWorlds
    /\ config \in Configs
    /\ part_id = NONE
    /\ spec_pattern = NoPattern
    /\ IdleSecret /\ IdleLoad /\ IdleGrade /\ IdleOut

Next ==
    \/ Entrypoint
    \/ MainConfig
    \/ MainLocate
    \/ LoadRead
    \/ LoadDecode
    \/ LoadParse
    \/ LoadCheck
    \/ MainSummarize
    \/ MainScore
    \/ HandleCypressResultsError
    \/ HandleException

\* the run is sequential: a step that can be taken is taken
Spec == Init /\ [][Next]_vars /\ WF_vars(Next)

\* SpecRun: the runs of Spec over one environment per way of supplying the
\* identifier, the secret and the path, for the properties of whole behaviours
RunEnvs ==
    { EmptyObj,
      [partId |-> "A1B2"],
      [argv1 |-> "A1B2", CYPRESS_RESULTS_SECRET |-> "envkey"],
      [partId |-> "", CYPRESS_RESULTS_SECRET_FILE |-> "/run/secret"],
      [partId |-> "A1B2", CYPRESS_RESULTS_PATH |-> <<"out", ".json">>] }

RunConfigs ==
    { NoPattern, StrPattern(<<"a">>), StrPattern(<<"(">>),
      DictPattern([A1B2 |-> <<"a">>]) }

InitRun == Init /\ env \in RunEnvs /\ config \in RunConfigs

SpecRun == InitRun /\ [][Next]_vars /\ WF_vars(Next)

-----------------------------------------------------------------------------
(* Claims about the grading run, checked under Spec and SpecRun *)

\* the run has ended: main returned and the process exits
RunEnded == pc = "done"

\* C1: in every grading run, whatever the outcome of locating, decrypting,
\* parsing and scoring, send_feedback is invoked exactly once before the
\* process ends: never twice at any point, once when the run has ended, and
\* every run ends
C1_FeedbackExactlyOnce ==
    /\ [](Len(feedback) <= 1)
    /\ [](RunEnded => Len(feedback) = 1)
    /\ <>RunEnded

\* C1 witness: a run ended by an exception that is no CypressResultsError, with
\* its one feedback record sent
C1_Witness ==
    /\ RunEnded
    /\ exc.kind = "Exception"
    /\ Len(feedback) = 1

\* C2: a run that ends in an error has emitted the score 0.0, and when the
\* error is one of the taxonomy (a CypressResultsError) the feedback text is the
\* message of that error; no run that hit an error emits a non-zero score
C2_ErrorMeansZeroWithMessage ==
    RunEnded /\ exc # NoExc =>
        /\ Len(feedback) = 1
        /\ feedback[1].fractionalScore = Zero
        /\ exc.kind = "CypressResultsError" =>
              feedback[1].feedback = [kind |-> "error", msg |-> exc.msg]

\* C2 witness: a run over a report with pending tests only under a pattern, or
\* with no test at all, ended by the no-tests error after scoring began
C2_Witness ==
    /\ RunEnded
    /\ exc = CypressResultsError(MsgNoTests)
    /\ summary # NoSummary
    /\ feedback = << [fractionalScore |-> Zero,
                      feedback |-> [kind |-> "error", msg |-> MsgNoTests]] >>

\* the run graded its report: it ended with no error
Graded == RunEnded /\ exc = NoExc

\* the fraction a equals the quotient p / d
FractionIs(a, p, d) == a.num * d = p * a.den

\* the most pending tests the independence of C3 is tried with
MaxPending == 4

\* C3: for a graded report with p passed, f failed and q pending tests, all
\* counts of tests and p + f + q > 0, the score sent is p / max(1, p + f), it
\* lies in [0, 1], and it is the score of the same report with any other
\* number of pending tests
C3_ScoreFormula ==
    Graded =>
        LET p == summary.passed_tests
            f == summary.failed_tests
            q == summary.pending_tests
            sent == feedback[1].fractionalScore
        IN  p >= 0 /\ f >= 0 /\ q >= 0 /\ p + f + q > 0 =>
                /\ FractionIs(sent, p, Max(1, p + f))
                /\ 0 <= sent.num /\ sent.num <= sent.den /\ sent.den > 0
                /\ \A other \in 0..MaxPending :
                      send_feedback(ScoreOf([summary EXCEPT !.pending_tests = other]),
                                    feedback[1].feedback).fractionalScore = sent

\* C3 witness: a graded report with passed, failed and pending tests, whose
\* score is strictly between 0 and 1
C3_Witness ==
    /\ Graded
    /\ summary.passed_tests > 0
    /\ summary.failed_tests > 0
    /\ summary.pending_tests > 0
    /\ FractionIs(feedback[1].fractionalScore, summary.passed_tests,
                  summary.passed_tests + summary.failed_tests)

\* no rubric identifier was supplied, in the environment or as the argument
NoIdentifier == ~EnvTruthy(env, "partId") /\ ~Has(env, "argv1")

\* the pattern configuration is absent, a string that is a valid expression, or
\* a mapping from identifier to pattern
ConfigWellFormed == config.kind = "str" => ValidRegex(config.val)

\* the pattern a run without identifier can filter by: none under a mapping
PatternWithoutIdentifier == IF config.kind = "dict" THEN NoPattern ELSE config

\* C8: a run without rubric identifier that located and loaded a valid report
\* grades it to its normal score, under every shape of the pattern
\* configuration; it fails only as the same report fails with no tests
C8_NoIdentifierStillGrades ==
    RunEnded /\ NoIdentifier /\ ConfigWellFormed /\ data # EmptyObj =>
        LET normal == summarize_results(data, PatternWithoutIdentifier)
        IN  IF normal.total_tests = 0
            THEN exc = CypressResultsError(MsgNoTests)
            ELSE /\ exc = NoExc
                 /\ feedback[1].fractionalScore = Clamp(ScoreOf(normal))

-----------------------------------------------------------------------------
(* SpecExtract: one call extract_state_and_error(test); the test is the one *)
(* test of the flat list of data, the pair returned is left in ret          *)

MaxAttempts == 3        \* longest attempts list of a generated test

AttemptShapes ==
    { EmptyObj,
      [state |-> "passed"],
      [state |-> "failed"],
      [state |-> "Failed", error |-> [message |-> "e1"]],
      [state |-> "PASSED", message |-> ""],
      [state |-> ""],
      [message |-> "late"],
      [error |-> [message |-> "e2"], message |-> "m"] }

ExtractBases ==
    { [title |-> "t1", state |-> "failed"],
      [title |-> "t2", state |-> "Failed", err |-> [message |-> " boom "]],
      [title |-> "t3", state |-> "Passed"],
      [title |-> "t4"] }

WithAttempts(test, attempts) ==
    [k \in DOMAIN test \cup {"attempts"} |->
        IF k = "attempts" THEN attempts ELSE test[k]]

ExtractTests ==
    ExtractBases
    \cup {WithAttempts(b, a) : b \in ExtractBases, a \in SeqsUpTo(AttemptShapes, MaxAttempts)}

InitExtract ==
    /\ pc = "extract"
    /\ \E t \in ExtractTests : data = [tests |-> <<t>>]
    /\ summary = NoSummary
    /\ details = <<>>
    /\ lines = <<>>
    /\ IdleRun /\ IdleWorld /\ IdleSecret /\ IdleLoad /\ IdleOut

\* line 414: state, error_message = extract_state_and_error(test)
ExtractCall ==
    /\ pc = "extract"
    /\ ret' = [outcome |-> "return",
               state |-> extract_state_and_error(data.tests[1]).state,
               error |-> extract_state_and_error(data.tests[1]).error]
    /\ pc' = "extracted"
    /\ UNCHANGED <<runVars, worldVars, cached_secret, secret_initialised, loadVars,
                   gradeVars, outVars>>

NextExtract == ExtractCall

SpecExtract == InitExtract /\ [][NextExtract]_vars

\* the greatest and the least member of a non-empty set of numbers
SetMax(S) == CHOOSE x \in S : \A y \in S : y <= x
SetMin(S) == CHOOSE x \in S : \A y \in S : x <= y

\* the test of the call and its attempts
ExtractedTest == data.tests[1]
Attempts == ExtractedTest.attempts

\* the attempts that carry a state, by index
StateCarriers == {i \in 1..Len(Attempts) : StrTruthy(Attempts[i], "state")}

\* the attempts a walk from the last entry backward visits: down to the first
\* carrier of a state it meets, or all of them
Visited ==
    IF StateCarriers = {} THEN 1..Len(Attempts)
    ELSE SetMax(StateCarriers)..Len(Attempts)

\* the visited attempts that carry an error
ErrorCarriers == {i \in Visited : ErrTruthy(AttemptError(Attempts[i]))}

-----------------------------------------------------------------------------
(* Claims about encrypted artifacts, checked under Spec *)

\* the file the run located
LocatedBytes == BytesAt(fs, results_path)

\* the secret the run resolves on the first call of get_results_secret
ResolvedSecret == ResolveSecret(env, secret_file, part_id, TRUE)

\* the located artifact is the cipher's output, under the secret the run
\* resolves, for the text of the valid report doc, and carries an encrypted suffix
EncryptedReport(doc) ==
    /\ results_path # NoPathFound
    /\ LowerSeg(results_path.name[Len(results_path.name)]) \in ENCRYPTED_SUFFIXES
    /\ should_treat_as_encrypted(env, results_path)
    /\ fs.openssl
    /\ ResolvedSecret.outcome = "return"
    /\ LocatedBytes = Cipher(ResolvedSecret.value, Json(doc))
    /\ is_probably_cypress_results(doc)

\* the located artifact is the plain text of the valid report doc
PlainReport(doc) ==
    /\ results_path # NoPathFound
    /\ ~should_treat_as_encrypted(env, results_path)
    /\ LocatedBytes = Json(doc)
    /\ is_probably_cypress_results(doc)

\* the run ended as the grading of the document doc under the run's pattern ends
GradedAs(doc) ==
    /\ data = doc
    /\ IF iter_all_tests_raises(doc, spec_pattern)
       THEN exc.kind = "Exception"
       ELSE /\ summary = summarize_results(doc, spec_pattern)
            /\ IF summary.total_tests = 0
               THEN exc = CypressResultsError(MsgNoTests)
               ELSE /\ exc = NoExc
                    /\ feedback[1].fractionalScore
                          = Clamp(Score(summary.passed_tests, summary.failed_tests))

\* C12: with the cipher an abstract pair, decrypt(encrypt(x, k), k) = x, grading
\* the encrypted artifact of a valid report, named with an encrypted suffix and
\* with the secret resolving to k, gives the same Summary and the same score as
\* grading the plain text of that report: both are those of the report
C12_EncryptedRoundTrip ==
    RunEnded =>
        \A doc \in MainDocs :
            EncryptedReport(doc) \/ PlainReport(doc) => GradedAs(doc)

\* C12 witness: a run over cypress-results.json.enc, encrypted under the rubric
\* identifier A1B2, graded to the Summary of its report with tests in it
C12_Witness ==
    /\ RunEnded
    /\ part_id = "A1B2"
    /\ results_path.name = <<"cypress-results", ".json", ".enc">>
    /\ EncryptedReport(FilterDoc)
    /\ exc = NoExc
    /\ summary = summarize_results(FilterDoc, spec_pattern)
    /\ summary.total_tests > 0

-----------------------------------------------------------------------------
(* Claims about the sniff rule, checked under Spec.  A key of a document is *)
(* in the model's record exactly when its value has the type the code tests *)
(* for (a list for runs, tests and results, an object for stats): the code  *)
(* reads a value of another type nowhere.                                  *)

KnownCounters == {"tests", "passes", "failures", "testsRegistered"}

\* the sniff rule as the claim states it
LooksLikeReport(doc) ==
    \/ "runs" \in DOMAIN doc
    \/ "stats" \in DOMAIN doc /\ \E c \in KnownCounters : c \in DOMAIN doc.stats
    \/ "tests" \in DOMAIN doc
    \/ "results" \in DOMAIN doc

\* the one feedback record of a run ended by the error msg
ZeroWith(msg) ==
    << [fractionalScore |-> Zero, feedback |-> [kind |-> "error", msg |-> msg]] >>

\* C13: a parsed document is accepted if and only if it is an object with a
\* list-valued runs key, or a stats object with at least one known counter, or a
\* list-valued tests key, or a list-valued results key; load_results rejects
\* every other parsed document, and the run then ends with the
\* input-unrecognized error and the score 0.0, as it does for {}
C13_SniffRule ==
    /\ RunEnded /\ raw_bytes.kind = "json" =>
          IF LooksLikeReport(raw_bytes.doc)
          THEN data = raw_bytes.doc /\ exc # CypressResultsError(MsgNotCypress)
          ELSE /\ data = EmptyObj
               /\ exc = CypressResultsError(MsgNotCypress)
               /\ feedback = ZeroWith(MsgNotCypress)
    /\ RunEnded /\ raw_bytes.kind = "nonobject" =>
          /\ data = EmptyObj
          /\ exc = CypressResultsError(MsgNotObject)
          /\ feedback = ZeroWith(MsgNotObject)

\* C13 witness: a run over the document {} ended with the input-unrecognized
\* error and the score 0.0
C13_Witness ==
    /\ RunEnded
    /\ raw_bytes = Json(EmptyObj)
    /\ exc = CypressResultsError(MsgNotCypress)
    /\ feedback = ZeroWith(MsgNotCypress)

-----------------------------------------------------------------------------
(* Claims about the feedback text of a graded run, checked under Spec *)

\* C14: the first feedback line is "All executed Cypress tests passed." exactly
\* when failed = 0 and passed + failed > 0; otherwise it is the X-of-Y line with
\* X the passed count and Y the number of executed tests, passed + failed, for
\* every combination of counts that reaches the formatter, reports whose tests
\* are all pending included
C14_Headline ==
    Graded =>
        LET passed == summary.passed_tests
            failed == summary.failed_tests
        IN  /\ Len(lines) > 0
            /\ lines[1] = IF failed = 0 /\ passed + failed > 0
                          THEN [kind |-> "all_passed"]
                          ELSE [kind |-> "headline", passed |-> passed,
                                executed |-> passed + failed]

\* the tests the walk of the loaded document yields, and the counters the
\* stats-block fallback sums
RunWalk == iter_all_tests(data, spec_pattern)
RunStats == aggregate_stats(data)

\* C15: a run ends with the no-tests error exactly when the Summary total is
\* zero after the structural walk and the stats-block fallback; a report with
\* total > 0 is never reported as having no tests, and a report with zero tests
\* never gets an ordinary zero-score feedback
C15_NoTestsIffTotalZero ==
    RunEnded =>
        IF summary = NoSummary
        THEN exc # CypressResultsError(MsgNoTests)
        ELSE /\ summary.total_tests = 0 <=>
                  /\ RunWalk = <<>>
                  /\ RunStats.passes + RunStats.failures + RunStats.pending = 0
             /\ summary.total_tests = 0 =>
                  /\ exc = CypressResultsError(MsgNoTests)
                  /\ feedback = ZeroWith(MsgNoTests)
             /\ summary.total_tests # 0 =>
                  /\ exc = NoExc
                  /\ Len(feedback) = 1
                  /\ feedback[1].feedback.kind = "lines"

\* C15 witness: a run over a report with a stats block that declares tests but
\* no passed, failed or pending counter ended with the no-tests error
C15_Witness ==
    /\ RunEnded
    /\ data = [stats |-> [testsRegistered |-> 4]]
    /\ summary.total_tests = 0
    /\ exc = CypressResultsError(MsgNoTests)
    /\ feedback = ZeroWith(MsgNoTests)

-----------------------------------------------------------------------------
(* Claims about locate_results_file, checked under Spec *)

\* locate_results_file has been called and has ended
Located == pc \notin {"entry", "main", "locate"}

\* CYPRESS_RESULTS_PATH overrides the search
ExplicitPath == Has(env, "CYPRESS_RESULTS_PATH") /\ env.CYPRESS_RESULTS_PATH # <<>>

\* the candidate names of the run, and the first of them that exists
CandidateNames ==
    _expand_candidate_filenames(IF Has(env, "CYPRESS_RESULTS_FILENAME")
                                THEN env.CYPRESS_RESULTS_FILENAME
                                ELSE DEFAULT_RESULTS_FILENAME)

\* the files a *.json scan accepts: listed by the glob of a search root and
\* passing the sniff rule
SniffedJson ==
    { f \in fs.files :
        /\ f.root \in Range(_candidate_roots(fs))
        /\ Len(f.name) > 1 /\ f.name[Len(f.name)] = ".json"
        /\ SniffsAsResults(f.bytes) }

\* some candidate name exists as a file in some search root
NamedCandidateExists ==
    \E f \in fs.files :
        f.root \in Range(_candidate_roots(fs)) /\ f.name \in Range(CandidateNames)

\* C16: with no explicit path and no named candidate present, the *.json sniff
\* scan over every search root runs before any *.enc scan: whenever some root
\* holds a *.json file that passes the sniff rule, a plaintext file is returned
\* and no *.enc file of any root is chosen instead
C16_JsonScanBeforeEncScan ==
    Located /\ ~ExplicitPath /\ ~NamedCandidateExists /\ SniffedJson # {} =>
        /\ results_path # NoPathFound
        /\ \E f \in SniffedJson : results_path = [root |-> f.root, name |-> f.name]

\* the position of x in the sequence s, which holds it
IndexIn(s, x) == CHOOSE i \in 1..Len(s) : s[i] = x /\ \A j \in 1..(i - 1) : s[j] # x

\* the (root, name) pairs of the candidate names that exist as files
NamedPairs ==
    { [root |-> f.root, name |-> f.name] :
        f \in { g \in fs.files : /\ g.root \in Range(_candidate_roots(fs))
                                 /\ g.name \in Range(CandidateNames) } }

\* p comes no later than q: roots in order, then names in candidate-list order
PairBefore(p, q) ==
    LET roots == _candidate_roots(fs)
    IN  \/ IndexIn(roots, p.root) < IndexIn(roots, q.root)
        \/ /\ p.root = q.root
           /\ IndexIn(CandidateNames, p.name) <= IndexIn(CandidateNames, q.name)

\* C17: with no explicit path, whenever a candidate name exists as a file in a
\* search root, the result is the first existing (root, name) pair, roots in
\* order (the nested learn root if present, then the submission root) and names
\* in candidate-list order within a root; the sniffing scans, which alone can
\* resolve the secret, are reached only when no named candidate exists
C17_NamedCandidateFirst ==
    Located /\ ~ExplicitPath /\ NamedCandidateExists =>
        /\ results_path \in NamedPairs
        /\ \A q \in NamedPairs : PairBefore(results_path, q)
        /\ pc = "load_read" => ~secret_initialised

\* C17 witness: the nested root holds only a later candidate name, the
\* submission root the first one, and the file of the nested root is returned
C17_Witness ==
    /\ Located
    /\ ~ExplicitPath
    /\ [root |-> "submission", name |-> DEFAULT_RESULTS_FILENAME] \in NamedPairs
    /\ results_path = [root |-> "learn",
                       name |-> <<"cypress-results", ".json", ".enc">>]

\* the position in the feedback lines of the line of the i-th detail entry
DetailPos(i) ==
    CHOOSE p \in 1..Len(lines) :
        /\ lines[p].kind = "detail"
        /\ Cardinality({q \in 1..p : lines[q].kind = "detail"}) = i

\* the line after the line of the i-th detail entry is an error line
ErrorLineAfter(i) ==
    DetailPos(i) < Len(lines) /\ lines[DetailPos(i) + 1].kind = "error"

\* lines 415-430: the counter summarize_results advanced for the entry
CountedAs(entry) ==
    IF entry.state \in PASS_STATES THEN "passed"
    ELSE IF entry.state \in FAIL_STATES THEN "failed"
    ELSE IF entry.state \in PENDING_STATES THEN "pending"
    ELSE "failed"

\* C18: in the detailed list of the feedback, every entry counted as failed,
\* an entry of unknown raw state included, is shown with the fail glyph and,
\* when it has an error message, with that message on the following line; an
\* entry counted as passed or pending never shows an error line, and the pass
\* glyph is shown only for entries counted as passed
C18_DetailGlyphs ==
    Graded =>
        \A i \in 1..Min(Len(details), MAX_DETAIL_ENTRIES) :
            LET entry == details[i]
                shown == lines[DetailPos(i)]
            IN  /\ CountedAs(entry) = "failed" =>
                      /\ shown.prefix = "fail"
                      /\ entry.error \notin {NONE, ""} =>
                            /\ ErrorLineAfter(i)
                            /\ lines[DetailPos(i) + 1].error = entry.error
                /\ CountedAs(entry) # "failed" => ~ErrorLineAfter(i)
                /\ shown.prefix = "pass" => CountedAs(entry) = "passed"

-----------------------------------------------------------------------------
(* Claims about the secret cache, checked under SpecSecret *)

\* C19: across the calls of get_results_secret in one process, whatever the
\* part_id and required arguments and the changes of the environment between
\* the calls, the cached secret is assigned at most once: once resolution has
\* run the cache never changes, and after the call that completed resolution
\* every later call returns the cached value, whatever the sources now hold
C19_SecretAssignedOnce ==
    [][ /\ secret_initialised =>
              secret_initialised' /\ cached_secret' = cached_secret
        /\ cached_secret # NONE => cached_secret' = cached_secret
        /\ cached_secret # NONE /\ pc' = "called" =>
              /\ ~ret'.first
              /\ ret'.outcome = "return"
              /\ ret'.value = cached_secret ]_vars

\* C19 witness: a later call returns the cached secret although resolving from
\* the sources as they are now would give another value
C19_Witness ==
    /\ pc = "called"
    /\ ~ret.first
    /\ ret.outcome = "return"
    /\ ret.value = cached_secret
    /\ LET fresh == ResolveSecret(env, secret_file, ret.part_id, ret.required)
       IN  fresh.outcome = "return" /\ fresh.value # ret.value

-----------------------------------------------------------------------------
(* Claims about the Summary and its detail list, checked under SpecSummary *)

\* the tests of the call's document in traversal order: those of the runs,
\* then the flat tests, then those of the results
TestsOfRuns == IF Has(data, "runs") THEN RunsTests(data.runs, 1, spec_pattern) ELSE <<>>
TestsOfFlat == IF Has(data, "tests") THEN data.tests ELSE <<>>
TestsOfResults == IF Has(data, "results") THEN ResultsTests(data.results, 1) ELSE <<>>
InTraversalOrder == TestsOfRuns \o TestsOfFlat \o TestsOfResults

\* the entries of the detail list counted in the counter c
EntriesCounted(c) ==
    {i \in 1..Len(summary.test_details) : CountedAs(summary.test_details[i]) = c}

\* C20: every Summary returned by summarize_results has total_tests =
\* passed_tests + failed_tests + pending_tests, and whenever the walk yielded
\* a test the detail list has exactly total_tests entries, one per yielded
\* test in traversal order (runs, then flat tests, then results), each with
\* one state and counted in exactly one of the three counters
C20_SummaryInvariant ==
    pc = "returned" =>
        /\ summary.total_tests
              = summary.passed_tests + summary.failed_tests + summary.pending_tests
        /\ Len(InTraversalOrder) > 0 =>
              /\ Len(summary.test_details) = summary.total_tests
              /\ Len(summary.test_details) = Len(InTraversalOrder)
              /\ \A i \in 1..Len(InTraversalOrder) :
                    LET entry == summary.test_details[i]
                        test == InTraversalOrder[i]
                    IN  /\ entry.title = format_test_title(test)
                        /\ entry.state = extract_state_and_error(test).state
                        /\ entry.passed <=> CountedAs(entry) = "passed"
              /\ summary.passed_tests = Cardinality(EntriesCounted("passed"))
              /\ summary.failed_tests = Cardinality(EntriesCounted("failed"))
              /\ summary.pending_tests = Cardinality(EntriesCounted("pending"))

\* C20 witness: a Summary of a document whose runs, flat tests and results all
\* yield tests, with entries in each of the three counters
C20_Witness ==
    /\ pc = "returned"
    /\ Len(TestsOfRuns) > 0 /\ Len(TestsOfFlat) > 0 /\ Len(TestsOfResults) > 0
    /\ \A c \in {"passed", "failed", "pending"} : EntriesCounted(c) # {}

=============================================================================
